---- MODULE Spec2Model ----
(***************************************************************************)
(* Model of the TexEnvPreRender editor extensions: the questionenv         *)
(* (named-block) scanner, the enumerate (ordered-list) scanner with its    *)
(* format parser and ordinal generator, and the view plugins that hold     *)
(* the decoration sets.                                                    *)
(*                                                                         *)
(* A buffer is a sequence of lexemes.  A lexeme is either one of the       *)
(* marker literals of the two grammars, kept whole and with its real       *)
(* length (Len of the string), or a single character.  All offsets are     *)
(* character offsets, as in the source: the offset of a lexeme is the sum  *)
(* of the lengths of the lexemes before it.                                *)
(***************************************************************************)
EXTENDS Integers, Sequences, FiniteSets, TLC

\* ------------------------------------------------------------------ bounds

\* Largest number of chunks a document is built from.
MaxSegs == 3
\* Largest number of chunks of a document that is edited (SpecEdit).
MaxEditSegs == 3
\* Largest number of chunks of a document scanned by an interleaved call.
MaxCallSegs == 2

\* ---------------------------------------------------------------- lexemes

BeginQ == "\\begin{questionenv}"
EndQ   == "\\end{questionenv}"
BeginE == "\\begin{enumerate}"
EndE   == "\\end{enumerate}"
Item   == "\\item"

Min(S) == CHOOSE x \in S : \A y \in S : x <= y

\* s.length of a string held as a sequence of lexemes.
RECURSIVE StrLen(_)
StrLen(s) == IF s = <<>> THEN 0 ELSE Len(Head(s)) + StrLen(Tail(s))

\* Character offset of the p-th lexeme of text (p = Len(text)+1: the end).
Off(text, p) == StrLen(SubSeq(text, 1, p - 1))

\* Concatenation of a sequence of strings.
RECURSIVE Flatten(_)
Flatten(ss) == IF ss = <<>> THEN <<>> ELSE Head(ss) \o Flatten(Tail(ss))

\* n ordinary characters: what remains of lexemes cut by a character offset.
Fill(n) == [k \in 1..n |-> "?"]

\* String.prototype.slice(from, to) for 0 <= from, to (character offsets).
\* A lexeme cut by from or to leaves ordinary characters: no marker literal
\* contains another marker literal or a bracket.
\* (SliceFrom: the part of the slice from lexeme p, which stands at offset a.)
RECURSIVE SliceFrom(_, _, _, _, _)
SliceFrom(text, p, a, from, to) ==
  IF p > Len(text) \/ a >= to THEN <<>>
  ELSE LET b == a + Len(text[p])
           lo == IF from > a THEN from ELSE a
           hi == IF to < b THEN to ELSE b
           piece == IF hi <= lo THEN <<>>
                    ELSE IF lo = a /\ hi = b THEN <<text[p]>>
                    ELSE Fill(hi - lo)
       IN piece \o SliceFrom(text, p + 1, b, from, to)

Slice(text, from, to) == SliceFrom(text, 1, 0, from, to)

\* Index of the first lexeme equal to tok at position >= p, 0 when none.
IndexFrom(text, tok, p) ==
  LET S == {k \in p..Len(text) : text[k] = tok}
  IN IF S = {} THEN 0 ELSE Min(S)

\* ------------------------------------------------- RegExp.prototype.exec

\* exec returned null.  A match is a record: index (match.index), all
\* (match[0]), g1 and g2 (the capture groups) and, for the checks only, lex:
\* the lexemes at which the match starts, its content starts and its end
\* literal stands.
NoMatch == [found |-> FALSE]

\* A capture group that did not participate in the match (undefined).
Undefined == [defined |-> FALSE, s |-> <<>>]
Captured(s) == [defined |-> TRUE, s |-> s]

\* Mutant: the name may be empty ([^\]]* for [^\]]+).
QMatchAt_EmptyName(text, i, index) ==
  IF ~(i + 1 <= Len(text) /\ text[i] = BeginQ /\ text[i + 1] = "[") THEN NoMatch
  ELSE LET j == IndexFrom(text, "]", i + 2)
       IN IF j = 0 THEN NoMatch
          ELSE LET k == IndexFrom(text, EndQ, j + 1)
               IN IF k = 0 THEN NoMatch
                  ELSE [found |-> TRUE,
                        index |-> index,
                        all |-> SubSeq(text, i, k),
                        g1 |-> Captured(SubSeq(text, i + 2, j - 1)),
                        g2 |-> Captured(SubSeq(text, j + 1, k - 1)),
                        lex |-> [start |-> i, content |-> j + 1, end |-> k]]

\* blockRegex = /\\begin{questionenv}\[([^\]]+)\](.*?)\\end{questionenv}/gs
\* tried at lexeme i, which stands at offset index: the name runs to the
\* first "]" and is not empty, the content runs lazily to the first end
\* literal after that bracket.
QMatchAt(text, i, index) ==
  IF ~(i + 1 <= Len(text) /\ text[i] = BeginQ /\ text[i + 1] = "[") THEN NoMatch
  ELSE LET j == IndexFrom(text, "]", i + 2)
       IN IF j = 0 \/ j = i + 2 THEN NoMatch
          ELSE LET k == IndexFrom(text, EndQ, j + 1)
               IN IF k = 0 THEN NoMatch
                  ELSE [found |-> TRUE,
                        index |-> index,
                        all |-> SubSeq(text, i, k),
                        g1 |-> Captured(SubSeq(text, i + 2, j - 1)),
                        g2 |-> Captured(SubSeq(text, j + 1, k - 1)),
                        lex |-> [start |-> i, content |-> j + 1, end |-> k]]

\* Index of the last lexeme equal to tok at position >= p, 0 when none.
LastIndexFrom(text, tok, p) ==
  LET S == {k \in p..Len(text) : text[k] = tok}
  IN IF S = {} THEN 0 ELSE CHOOSE x \in S : \A y \in S : y <= x

\* Mutant: the content is matched greedily ((.*) for (.*?)).
EMatchAt_Greedy(text, i, index) ==
  IF ~(i <= Len(text) /\ text[i] = BeginE) THEN NoMatch
  ELSE LET j == IF i + 1 <= Len(text) /\ text[i + 1] = "["
                THEN IndexFrom(text, "]", i + 2) ELSE 0
           kWith == IF j = 0 THEN 0 ELSE LastIndexFrom(text, EndE, j + 1)
           kBare == LastIndexFrom(text, EndE, i + 1)
       IN IF kWith # 0
          THEN [found |-> TRUE,
                index |-> index,
                all |-> SubSeq(text, i, kWith),
                g1 |-> Captured(SubSeq(text, i + 1, j)),
                g2 |-> Captured(SubSeq(text, j + 1, kWith - 1)),
                lex |-> [start |-> i, content |-> j + 1, end |-> kWith]]
          ELSE IF kBare # 0
          THEN [found |-> TRUE,
                index |-> index,
                all |-> SubSeq(text, i, kBare),
                g1 |-> Undefined,
                g2 |-> Captured(SubSeq(text, i + 1, kBare - 1)),
                lex |-> [start |-> i, content |-> i + 1, end |-> kBare]]
          ELSE NoMatch

\* enumerateBlockRegex = /\\begin{enumerate}(\[[^\]]*\])?(.*?)\\end{enumerate}/gs
\* tried at lexeme i: the optional bracket group is tried first (greedy); when
\* the rest cannot match behind it, the match is retried without the group.
EMatchAt(text, i, index) ==
  IF ~(i <= Len(text) /\ text[i] = BeginE) THEN NoMatch
  ELSE LET j == IF i + 1 <= Len(text) /\ text[i + 1] = "["
                THEN IndexFrom(text, "]", i + 2) ELSE 0
           kWith == IF j = 0 THEN 0 ELSE IndexFrom(text, EndE, j + 1)
           kBare == IndexFrom(text, EndE, i + 1)
       IN IF kWith # 0
          THEN [found |-> TRUE,
                index |-> index,
                all |-> SubSeq(text, i, kWith),
                g1 |-> Captured(SubSeq(text, i + 1, j)),
                g2 |-> Captured(SubSeq(text, j + 1, kWith - 1)),
                lex |-> [start |-> i, content |-> j + 1, end |-> kWith]]
          ELSE IF kBare # 0
          THEN [found |-> TRUE,
                index |-> index,
                all |-> SubSeq(text, i, kBare),
                g1 |-> Undefined,
                g2 |-> Captured(SubSeq(text, i + 1, kBare - 1)),
                lex |-> [start |-> i, content |-> i + 1, end |-> kBare]]
          ELSE NoMatch

\* Mutant: the item literal is optional (/(\\item)?/g), so that the pattern
\* also matches the empty text.
IMatchAt_Optional(text, i, index) ==
  IF i <= Len(text) /\ text[i] = Item
  THEN [found |-> TRUE, index |-> index, all |-> <<text[i]>>,
        lex |-> [start |-> i, content |-> i, end |-> i]]
  ELSE [found |-> TRUE, index |-> index, all |-> <<>>,
        lex |-> [start |-> i, content |-> i, end |-> i]]

\* itemRegex = /\\item/g tried at lexeme i.
IMatchAt(text, i, index) ==
  IF i <= Len(text) /\ text[i] = Item
  THEN [found |-> TRUE, index |-> index, all |-> <<text[i]>>,
        lex |-> [start |-> i, content |-> i, end |-> i]]
  ELSE NoMatch

\* The pattern re tried at lexeme i.
MatchAt(re, text, i, index) ==
  CASE re = "blockRegex" -> QMatchAt(text, i, index)
    [] re = "enumerateBlockRegex" -> EMatchAt(text, i, index)
    [] re = "itemRegex" -> IMatchAt(text, i, index)

\* The leftmost match of re at a lexeme >= i (which stands at offset index)
\* that starts at an offset >= lastIndex.
RECURSIVE FirstMatch(_, _, _, _, _)
FirstMatch(re, text, i, index, lastIndex) ==
  IF i > Len(text) THEN NoMatch
  ELSE IF index >= lastIndex /\ MatchAt(re, text, i, index).found
  THEN MatchAt(re, text, i, index)
  ELSE FirstMatch(re, text, i + 1, index + Len(text[i]), lastIndex)

\* What exec returns and leaves in lastIndex, given the match m it found:
\* lastIndex becomes the end of the match, or 0 when there is none.
ExecResult(m) ==
  IF m.found THEN [match |-> m, lastIndex |-> m.index + StrLen(m.all)]
  ELSE [match |-> NoMatch, lastIndex |-> 0]

\* re.exec(text) of a global pattern whose cursor is lastIndex: the leftmost
\* match starting at an offset >= lastIndex.
Exec(re, text, lastIndex) == ExecResult(FirstMatch(re, text, 1, 0, lastIndex))

\* ---------------------------------------------------- ordinal generator

LowerLatin ==
  <<"a", "b", "c", "d", "e", "f", "g", "h", "i", "j", "k", "l", "m",
    "n", "o", "p", "q", "r", "s", "t", "u", "v", "w", "x", "y", "z">>
UpperLatin ==
  <<"A", "B", "C", "D", "E", "F", "G", "H", "I", "J", "K", "L", "M",
    "N", "O", "P", "Q", "R", "S", "T", "U", "V", "W", "X", "Y", "Z">>
DecimalDigits == <<"0", "1", "2", "3", "4", "5", "6", "7", "8", "9">>

\* String.fromCharCode(97 + rem) for rem in 0..25.
fromCharCode97(rem) == LowerLatin[rem + 1]

\* Number.prototype.toString() of an integer.
RECURSIVE natToString(_)
natToString(n) ==
  IF n < 10 THEN <<DecimalDigits[n + 1]>>
  ELSE natToString(n \div 10) \o <<DecimalDigits[(n % 10) + 1]>>

toString(n) == IF n < 0 THEN <<"-">> \o natToString(0 - n) ELSE natToString(n)

\* String.prototype.toUpperCase() on the characters the generators produce.
toUpperCase(s) ==
  [k \in 1..Len(s) |->
     IF \E c \in 1..26 : LowerLatin[c] = s[k]
     THEN UpperLatin[CHOOSE c \in 1..26 : LowerLatin[c] = s[k]]
     ELSE s[k]]

\* Mutant: the digits are taken as those of positional base 26 (n for n - 1).
numberToLetterBody_Positional(s) ==
  [n |-> s.n \div 26, letters |-> <<fromCharCode97(s.n % 26)>> \o s.letters]

\* The body of the while loop of numberToLetter: s holds n and letters, the
\* text built so far.
numberToLetterBody(s) ==
  [n |-> (s.n - 1) \div 26,
   letters |-> <<fromCharCode97((s.n - 1) % 26)>> \o s.letters]

\* The while loop of numberToLetter.
RECURSIVE numberToLetterLoop(_)
numberToLetterLoop(s) ==
  IF s.n > 0 THEN numberToLetterLoop(numberToLetterBody(s)) ELSE s.letters

\* let letters = '' before the loop.
numberToLetterEnter(n) == [n |-> n, letters |-> <<>>]

numberToLetter(n) == numberToLetterLoop(numberToLetterEnter(n))

\* romanMap with its keys sorted in descending order.
romanKeys == <<1000, 900, 500, 400, 100, 90, 50, 40, 10, 9, 5, 4, 1>>

\* Mutant: 4 is written 'vi'.
romanMap_FourSwapped ==
  <<  <<"m">>, <<"c", "m">>, <<"d">>, <<"c", "d">>, <<"c">>, <<"x", "c">>,
      <<"l">>, <<"x", "l">>, <<"x">>, <<"i", "x">>, <<"v">>, <<"v", "i">>,
      <<"i">>  >>

romanMap ==
  <<  <<"m">>, <<"c", "m">>, <<"d">>, <<"c", "d">>, <<"c">>, <<"x", "c">>,
      <<"l">>, <<"x", "l">>, <<"x">>, <<"i", "x">>, <<"v">>, <<"i", "v">>,
      <<"i">>  >>

\* One evaluation of the while condition of numberToRoman for the k-th key:
\* the body of the while loop, or the step of the for loop to the next key.
\* s holds num, k and roman, the text built so far.
numberToRomanBody(s) ==
  IF s.num >= romanKeys[s.k]
  THEN [s EXCEPT !.num = @ - romanKeys[s.k], !.roman = @ \o romanMap[s.k]]
  ELSE [s EXCEPT !.k = @ + 1]

\* The for/while loops of numberToRoman from the k-th key on.
RECURSIVE numberToRomanLoop(_)
numberToRomanLoop(s) ==
  IF s.k > Len(romanKeys) THEN s.roman
  ELSE numberToRomanLoop(numberToRomanBody(s))

\* let roman = '' before the loops.
numberToRomanEnter(num) == [num |-> num, k |-> 1, roman |-> <<>>]

\* Mutant: the range check is left out.
numberToRoman_NoGuard(num) == numberToRomanLoop(numberToRomanEnter(num))

numberToRoman(num) ==
  IF num <= 0 \/ num >= 4000 THEN toString(num)
  ELSE numberToRomanLoop(numberToRomanEnter(num))

generateIdentifier(counter, format) ==
  LET value == CASE format.type = "a" -> numberToLetter(counter)
                 [] format.type = "A" -> toUpperCase(numberToLetter(counter))
                 [] format.type = "i" -> numberToRoman(counter)
                 [] format.type = "I" -> toUpperCase(numberToRoman(counter))
                 [] OTHER -> toString(counter)
  IN format.decoratorStart \o value \o format.decoratorEnd

\* ---------------------------------------------------------- format parser

\* Characters String.prototype.trim() removes.
Whitespace == {" ", "\t", "\n"}

RECURSIVE trimStart(_)
trimStart(s) ==
  IF s # <<>> /\ Head(s) \in Whitespace THEN trimStart(Tail(s)) ELSE s

RECURSIVE trimEnd(_)
trimEnd(s) ==
  IF s # <<>> /\ s[Len(s)] \in Whitespace
  THEN trimEnd(SubSeq(s, 1, Len(s) - 1)) ELSE s

\* Mutant: only the leading whitespace is removed (trimStart for trim).
trim_StartOnly(s) == trimStart(s)

trim(s) == trimEnd(trimStart(s))

defaultFormat == [type |-> "1", decoratorStart |-> <<>>, decoratorEnd |-> <<".">>]

FormatTypes == {"1", "a", "A", "i", "I"}

\* Mutant: no space is allowed between the parts (the " *" left out).
SkipSpaces_None(s, p) == p

\* First position >= p of s that holds no space (Len(s)+1 when none): " *".
RECURSIVE SkipSpaces(_, _)
SkipSpaces(s, p) ==
  IF p <= Len(s) /\ s[p] = " " THEN SkipSpaces(s, p + 1) ELSE p

\* format.match(/^(\(?) *([1aAiI]) *([.)]?[\)]?)$/)
FormatRegexMatch(format) ==
  LET g1 == IF format # <<>> /\ format[1] = "(" THEN <<"(">> ELSE <<>>
      p == SkipSpaces(format, Len(g1) + 1)
  IN IF ~(p <= Len(format) /\ format[p] \in FormatTypes) THEN NoMatch
     ELSE LET q == SkipSpaces(format, p + 1)
              g3 == SubSeq(format, q, Len(format))
          IN IF g3 \in {<<>>, <<".">>, <<")">>, <<".", ")">>, <<")", ")">>}
             THEN [found |-> TRUE, g1 |-> g1, g2 |-> format[p], g3 |-> g3]
             ELSE NoMatch

\* Mutant: the suffix defaults to "." for every alphabet.
decoratorEnd_AlwaysDot(captured, type) ==
  IF captured # <<>> THEN captured ELSE <<".">>

\* decoratorEnd = match[3] || (type === '1' ? '.' : '')
decoratorEnd(captured, type) ==
  IF captured # <<>> THEN captured
  ELSE IF type = "1" THEN <<".">> ELSE <<>>

\* parseFormat with its console.warn: result is the returned ParsedFormat,
\* warned whether a diagnostic was written, text the text it names.
parseFormatRun(formatArg) ==
  LET quiet(r) == [result |-> r, warned |-> FALSE, text |-> <<>>]
  IN IF ~formatArg.defined \/ formatArg.s = <<>> THEN quiet(defaultFormat)
     ELSE LET format == trim(Slice(formatArg.s, 1, StrLen(formatArg.s) - 1))
              match == FormatRegexMatch(format)
          IN IF format = <<>> THEN quiet(defaultFormat)
             ELSE IF match.found
             THEN LET type == match.g2
                  IN quiet([type |-> type,
                            decoratorStart |-> match.g1,
                            decoratorEnd |-> decoratorEnd(match.g3, type)])
             ELSE IF Len(format) = 1 /\ format[1] \in FormatTypes
             THEN quiet([type |-> format[1],
                         decoratorStart |-> <<>>,
                         decoratorEnd |->
                           IF format[1] = "1" THEN <<".">> ELSE <<>>])
             ELSE [result |-> defaultFormat, warned |-> TRUE, text |-> format]

parseFormat(formatArg) == parseFormatRun(formatArg).result

\* ----------------------------------------------------------- range builder

\* A decoration range: kind is ReplaceStart, Mark, ReplaceEnd or ReplaceItem,
\* data what its widget carries (the name, the raw bracket text, the label).
Range(from, to, kind, data) ==
  [from |-> from, to |-> to, kind |-> kind, data |-> data]

\* new RangeSetBuilder<Decoration>()
NewBuilder == [ranges |-> <<>>, threw |-> FALSE]

\* builder.add(from, to, value): appends; RangeSetBuilder throws "Ranges must
\* be added sorted by `from` position" when from is below the last one added.
Add(builder, r) ==
  IF builder.threw THEN builder
  ELSE IF builder.ranges # <<>>
          /\ r.from < builder.ranges[Len(builder.ranges)].from
  THEN [builder EXCEPT !.threw = TRUE]
  ELSE [builder EXCEPT !.ranges = Append(@, r)]

\* ------------------------------------------------------ questionenv scanner

\* Mutant: the offset of the match is left out (offsets relative to it).
QStartMarkerEndIndex_Relative(blockStartIndex, name) ==
  Len("\\begin{questionenv}[") + StrLen(name) + Len("]")

\* Mutant: the closing bracket is left out of the start marker's length.
QStartMarkerEndIndex_NoBracket(blockStartIndex, name) ==
  blockStartIndex + Len("\\begin{questionenv}[") + StrLen(name)

\* startMarkerEndIndex of findAndDecorateQuestionEnvBlocks.
QStartMarkerEndIndex(blockStartIndex, name) ==
  blockStartIndex + Len("\\begin{questionenv}[") + StrLen(name) + Len("]")

\* Mutant: the length of the content is left out.
QTextEndIndex_NoContent(textStartIndex, textContent) == textStartIndex

\* textEndIndex = textStartIndex + textContent.length
QTextEndIndex(textStartIndex, textContent) == textStartIndex + StrLen(textContent)

\* blockEndIndex = endMarkerStartIndex + "\\end{questionenv}".length
QBlockEndIndex(endMarkerStartIndex) == endMarkerStartIndex + Len("\\end{questionenv}")

\* The offsets one loop iteration computes from its match.
QOffsets(match) ==
  LET name == match.g1.s
      textContent == match.g2.s
      blockStartIndex == match.index
      startMarkerEndIndex == QStartMarkerEndIndex(blockStartIndex, name)
      textStartIndex == startMarkerEndIndex
      textEndIndex == QTextEndIndex(textStartIndex, textContent)
      endMarkerStartIndex == textEndIndex
      blockEndIndex == QBlockEndIndex(endMarkerStartIndex)
  IN [name |-> name,
      blockStartIndex |-> blockStartIndex,
      startMarkerEndIndex |-> startMarkerEndIndex,
      textStartIndex |-> textStartIndex,
      textEndIndex |-> textEndIndex,
      endMarkerStartIndex |-> endMarkerStartIndex,
      blockEndIndex |-> blockEndIndex]

\* The three builder.add calls of one loop iteration.
QAddBlock(builder, o) ==
  LET b1 == Add(builder, Range(o.blockStartIndex, o.startMarkerEndIndex,
                               "ReplaceStart", Captured(o.name)))
      b2 == IF o.textEndIndex > o.textStartIndex
            THEN Add(b1, Range(o.textStartIndex, o.textEndIndex, "Mark", Undefined))
            ELSE b1
  IN Add(b2, Range(o.endMarkerStartIndex, o.blockEndIndex, "ReplaceEnd", Undefined))

\* The value blockRegex.lastIndex is given before the loop.
QResetLastIndex(lastIndex) == 0

\* Entry of findAndDecorateQuestionEnvBlocks: a new builder, the document
\* text, the cursor reset.  s holds the module-level cursor (lastIndex) and
\* the locals of the call; blocks records, per iteration, the match and the
\* offsets computed from it, at being the index of its first range.
QEnter(lastIndex, text) ==
  [pc |-> "loop", lastIndex |-> QResetLastIndex(lastIndex), text |-> text,
   builder |-> NewBuilder, blocks |-> <<>>]

\* The loop body of findAndDecorateQuestionEnvBlocks for the result e of
\* blockRegex.exec(text), and the exit of the loop when there is no match.
QLoopBody(s, e) ==
  LET o == QOffsets(e.match)
      b == QAddBlock(s.builder, o)
  IN IF ~e.match.found
     THEN [s EXCEPT !.pc = "return", !.lastIndex = e.lastIndex]
     ELSE [s EXCEPT !.pc = IF b.threw THEN "threw" ELSE "loop",
                    !.lastIndex = e.lastIndex,
                    !.builder = b,
                    !.blocks = Append(@, [match |-> e.match, o |-> o,
                                          at |-> Len(s.builder.ranges) + 1])]

\* One evaluation of the while condition, and the loop body when it matched.
QIterate(s) == QLoopBody(s, Exec("blockRegex", s.text, s.lastIndex))

RECURSIVE QRun(_)
QRun(s) == IF s.pc = "loop" THEN QRun(QIterate(s)) ELSE s

\* Mutant: one exec in place of the loop, and the cursor not reset
\* (if (match = blockRegex.exec(text)) on the shared global pattern).
findAndDecorateQuestionEnvBlocks_OneExec(lastIndex, text) ==
  QIterate([pc |-> "loop", lastIndex |-> lastIndex, text |-> text,
            builder |-> NewBuilder, blocks |-> <<>>])

\* findAndDecorateQuestionEnvBlocks(view), with blockRegex.lastIndex as found.
findAndDecorateQuestionEnvBlocks(lastIndex, text) == QRun(QEnter(lastIndex, text))

\* -------------------------------------------------------- enumerate scanner

\* Mutant: the bracket argument is left out of the start marker's length.
EStartMarkerEndIndex_NoArg(blockStartIndex, formatArg) ==
  blockStartIndex + Len("\\begin{enumerate}")

\* startMarkerEndIndex of findAndDecorateEnumerateBlocks.
EStartMarkerEndIndex(blockStartIndex, formatArg) ==
  blockStartIndex + Len("\\begin{enumerate}")
    + (IF formatArg.defined /\ formatArg.s # <<>> THEN StrLen(formatArg.s) ELSE 0)

\* contentEndIndex = contentStartIndex + content.length
EContentEndIndex(contentStartIndex, content) == contentStartIndex + StrLen(content)

\* Mutant: the length of the begin literal is taken for the end literal's.
EBlockEndIndex_BeginLength(endMarkerStartIndex) ==
  endMarkerStartIndex + Len("\\begin{enumerate}")

\* blockEndIndex = endMarkerStartIndex + "\\end{enumerate}".length
EBlockEndIndex(endMarkerStartIndex) == endMarkerStartIndex + Len("\\end{enumerate}")

EOffsets(match) ==
  LET formatArg == match.g1
      content == match.g2.s
      blockStartIndex == match.index
      startMarkerEndIndex == EStartMarkerEndIndex(blockStartIndex, formatArg)
      contentStartIndex == startMarkerEndIndex
      contentEndIndex == EContentEndIndex(contentStartIndex, content)
      endMarkerStartIndex == contentEndIndex
      blockEndIndex == EBlockEndIndex(endMarkerStartIndex)
  IN [formatArg |-> formatArg,
      blockStartIndex |-> blockStartIndex,
      startMarkerEndIndex |-> startMarkerEndIndex,
      contentStartIndex |-> contentStartIndex,
      contentEndIndex |-> contentEndIndex,
      endMarkerStartIndex |-> endMarkerStartIndex,
      blockEndIndex |-> blockEndIndex]

\* Mutant: the counter is declared outside the loop and carries over.
EItemCounterInit_Kept(previous) == previous

\* let itemCounter = 0: the counter a block starts from (previous is the
\* value the block before ended with).
EItemCounterInit(previous) == 0

\* itemCounter++
EItemCounterNext(itemCounter) == itemCounter + 1

\* The values the two cursors are given before their loops.
EResetLastIndex(lastIndex) == 0

\* Mutant: itemRegex.lastIndex is not reset before the item loop.
IResetLastIndex_Kept(lastIndex) == lastIndex

IResetLastIndex(lastIndex) == 0

\* Mutant: the item offset is left relative to the block content.
EItemStart_Relative(contentStartIndex, itemMatch) == itemMatch.index

\* itemStart = contentStartIndex + itemMatch.index
EItemStart(contentStartIndex, itemMatch) == contentStartIndex + itemMatch.index

\* Entry of findAndDecorateEnumerateBlocks.  s holds the two module-level
\* cursors (lastIndex of enumerateBlockRegex, itemLastIndex of itemRegex) and
\* the locals of the call; blocks records, per block, the match, the offsets
\* computed from it, the parsed format, the index of its start range (at) and
\* the number of its items.
EEnter(lastIndex, itemLastIndex, text) ==
  [pc |-> "loop", lastIndex |-> EResetLastIndex(lastIndex),
   itemLastIndex |-> itemLastIndex, text |-> text,
   builder |-> NewBuilder, blocks |-> <<>>,
   o |-> EOffsets([index |-> 0, g1 |-> Undefined, g2 |-> Undefined]),
   parsedFormat |-> defaultFormat, itemCounter |-> 0, blockContent |-> <<>>]

\* The body of the outer loop up to the item loop, for the result e of
\* enumerateBlockRegex.exec(text): offsets, parseFormat, the start range, the
\* slice of the content and the reset of itemRegex; the exit of the loop when
\* there is no match.
EBlockBody(s, e) ==
  LET o == EOffsets(e.match)
      b == Add(s.builder, Range(o.blockStartIndex, o.startMarkerEndIndex,
                                "ReplaceStart", o.formatArg))
  IN IF ~e.match.found
     THEN [s EXCEPT !.pc = "return", !.lastIndex = e.lastIndex]
     ELSE [s EXCEPT !.pc = IF b.threw THEN "threw" ELSE "items",
                    !.lastIndex = e.lastIndex,
                    !.itemLastIndex = IResetLastIndex(s.itemLastIndex),
                    !.builder = b,
                    !.o = o,
                    !.parsedFormat = parseFormat(o.formatArg),
                    !.itemCounter = EItemCounterInit(s.itemCounter),
                    !.blockContent = Slice(s.text, o.contentStartIndex,
                                           o.contentEndIndex),
                    !.blocks = Append(@, [match |-> e.match, o |-> o,
                                          parsedFormat |-> parseFormat(o.formatArg),
                                          at |-> Len(s.builder.ranges) + 1,
                                          items |-> 0])]

\* One evaluation of the outer while condition and, when it matched, the body
\* up to the item loop.
EBlock(s) == EBlockBody(s, Exec("enumerateBlockRegex", s.text, s.lastIndex))

\* The body of the inner loop for the result e of itemRegex.exec(
\* blockContent): the item range when it matched; otherwise the end range of
\* the block, and back to the outer loop.
EItemBody(s, e) ==
  LET itemCounter == EItemCounterNext(s.itemCounter)
      identifierString == generateIdentifier(itemCounter, s.parsedFormat)
      itemStart == EItemStart(s.o.contentStartIndex, e.match)
      itemEnd == itemStart + StrLen(e.match.all)
      bItem == Add(s.builder, Range(itemStart, itemEnd, "ReplaceItem",
                                    Captured(identifierString)))
      bEnd == Add(s.builder, Range(s.o.endMarkerStartIndex, s.o.blockEndIndex,
                                   "ReplaceEnd", Undefined))
  IN IF e.match.found
     THEN [s EXCEPT !.pc = IF bItem.threw THEN "threw" ELSE "items",
                    !.itemLastIndex = e.lastIndex,
                    !.itemCounter = itemCounter,
                    !.builder = bItem,
                    !.blocks[Len(s.blocks)].items = @ + 1]
     ELSE [s EXCEPT !.pc = IF bEnd.threw THEN "threw" ELSE "loop",
                    !.itemLastIndex = e.lastIndex,
                    !.builder = bEnd]

\* One evaluation of the inner while condition and what follows from it.
EItem(s) == EItemBody(s, Exec("itemRegex", s.blockContent, s.itemLastIndex))

EStep(s) == IF s.pc = "loop" THEN EBlock(s) ELSE EItem(s)

RECURSIVE ERun(_)
ERun(s) == IF s.pc \in {"loop", "items"} THEN ERun(EStep(s)) ELSE s

\* findAndDecorateEnumerateBlocks(view), with the two cursors as found.
findAndDecorateEnumerateBlocks(lastIndex, itemLastIndex, text) ==
  ERun(EEnter(lastIndex, itemLastIndex, text))

\* -------------------------------------------------------- bulldozer scanner
\* (main.ts: the same pattern and loop body, run on each visible range.)

\* blockStartIndex = from + match.index
BBlockStartIndex(from, match) == from + match.index

\* The offsets one loop iteration computes from its match in the slice that
\* starts at from.
BOffsets(from, match) ==
  LET name == match.g1.s
      textContent == match.g2.s
      blockStartIndex == BBlockStartIndex(from, match)
      startMarkerEndIndex ==
        blockStartIndex + Len("\\begin{questionenv}[") + StrLen(name) + Len("]")
      textStartIndex == startMarkerEndIndex
      textEndIndex == textStartIndex + StrLen(textContent)
      endMarkerStartIndex == textEndIndex
      blockEndIndex == endMarkerStartIndex + Len("\\end{questionenv}")
  IN [name |-> name,
      blockStartIndex |-> blockStartIndex,
      startMarkerEndIndex |-> startMarkerEndIndex,
      textStartIndex |-> textStartIndex,
      textEndIndex |-> textEndIndex,
      endMarkerStartIndex |-> endMarkerStartIndex,
      blockEndIndex |-> blockEndIndex]

\* The three builder.add calls of one loop iteration.
BAddBlock(builder, o) ==
  LET b1 == Add(builder, Range(o.blockStartIndex, o.startMarkerEndIndex,
                               "ReplaceStart", Captured(o.name)))
      b2 == IF o.textEndIndex > o.textStartIndex
            THEN Add(b1, Range(o.textStartIndex, o.textEndIndex, "Mark", Undefined))
            ELSE b1
  IN Add(b2, Range(o.endMarkerStartIndex, o.blockEndIndex, "ReplaceEnd", Undefined))

\* Entry of findAndDecorateBulldozerBlocks: a new builder, before the first
\* visible range.  s holds the module-level cursor of main.ts (lastIndex) and
\* the locals of the call: the ranges still to visit, and from and text of
\* the one being scanned.
BEnter(lastIndex, text, ranges) ==
  [pc |-> "for", lastIndex |-> lastIndex, doc |-> text, ranges |-> ranges,
   from |-> 0, text |-> <<>>, builder |-> NewBuilder, blocks |-> <<>>]

\* The head of the for loop: the slice of the next visible range and the
\* reset of the cursor, or the return after the last range.
BNextRange(s) ==
  IF s.ranges = <<>> THEN [s EXCEPT !.pc = "return"]
  ELSE [s EXCEPT !.pc = "loop",
                 !.from = Head(s.ranges).from,
                 !.text = Slice(s.doc, Head(s.ranges).from, Head(s.ranges).to),
                 !.lastIndex = 0,
                 !.ranges = Tail(@)]

\* The loop body for the result e of blockRegex.exec(text), and the exit of
\* the while loop when there is no match.
BLoopBody(s, e) ==
  LET o == BOffsets(s.from, e.match)
      b == BAddBlock(s.builder, o)
  IN IF ~e.match.found
     THEN [s EXCEPT !.pc = "for", !.lastIndex = e.lastIndex]
     ELSE [s EXCEPT !.pc = IF b.threw THEN "threw" ELSE "loop",
                    !.lastIndex = e.lastIndex,
                    !.builder = b,
                    !.blocks = Append(@, [match |-> e.match, o |-> o,
                                          from |-> s.from,
                                          at |-> Len(s.builder.ranges) + 1])]

BIterate(s) == BLoopBody(s, Exec("blockRegex", s.text, s.lastIndex))

BStep(s) == IF s.pc = "for" THEN BNextRange(s) ELSE BIterate(s)

RECURSIVE BRun(_)
BRun(s) == IF s.pc \in {"for", "loop"} THEN BRun(BStep(s)) ELSE s

\* findAndDecorateBulldozerBlocks(view), with blockRegex.lastIndex as found.
findAndDecorateBulldozerBlocks(lastIndex, text, ranges) ==
  BRun(BEnter(lastIndex, text, ranges))

\* ------------------------------------------------------------------- state

VARIABLES
  doc,                  \* view.state.doc: the document, a sequence of chunks
  blockRegex,           \* blockRegex.lastIndex (questionenv module)
  enumerateBlockRegex,  \* enumerateBlockRegex.lastIndex
  itemRegex,            \* itemRegex.lastIndex
  questionEnvPlugin,    \* the view plugin instance of createQuestionEnvPlugin
  enumeratePlugin,      \* the view plugin instance of createEnumeratePlugin
  calls,                \* scanner calls in progress (SpecInterleaved only)
  visibleRanges,        \* view.visibleRanges
  bulldozerBlockRegex,  \* blockRegex.lastIndex (main.ts)
  bulldozerPlugin,      \* the view plugin instance of bulldozerHighlightPlugin
  helper,               \* a call of parseFormat or of the ordinal generator
  modal                 \* the input modal a click opened, and what it dispatched

vars == <<doc, blockRegex, enumerateBlockRegex, itemRegex,
          questionEnvPlugin, enumeratePlugin, calls,
          visibleRanges, bulldozerBlockRegex, bulldozerPlugin, helper,
          modal>>

\* view.state.doc.toString()
DocText(d) == Flatten(d)

\* ------------------------------------------------------------- documents

\* Whole blocks of the two grammars.
QBlockEmpty == <<BeginQ, "[", "n", "]", EndQ>>
QBlockText  == <<BeginQ, "[", "n", "m", "]", "x", "\n", "x", EndQ>>
EBlockBare  == <<BeginE, Item, "x", Item, Item, EndE>>
EBlockRoman == <<BeginE, "[", "I", ".", "]", "x", Item, "x", Item, EndE>>
EBlockOpen  == <<BeginE, "[", Item, EndE>>

\* Chunks of documents around the questionenv grammar: stray markers and
\* text, start markers (with a name, with an empty name, with a name that
\* holds an end literal) and whole blocks.
SegsQ ==
  { <<BeginQ>>, <<"x">>, <<EndQ>>,
    <<BeginQ, "[", "n", "]">>,
    <<BeginQ, "[", "]">>,
    <<BeginQ, "[", EndQ, "]">>,
    QBlockEmpty, QBlockText }

\* Chunks of documents around the enumerate grammar: stray markers, an
\* opening bracket, bracket arguments (one holding an end literal) and whole
\* blocks.
SegsE ==
  { <<BeginE>>, <<"[">>, <<Item>>, <<EndE>>,
    <<"[", "(", "a", ")", "]">>,
    <<"[", EndE, "]">>,
    EBlockBare, EBlockRoman }

\* Chunks of documents that mix the two grammars.
SegsX ==
  { <<BeginQ, "[", "n", "]">>, <<EndQ>>, <<BeginE>>, <<Item>>, <<EndE>>,
    <<"[">>, <<BeginE, Item, EndE>> }

\* Documents of two blocks of one grammar with text before, between and
\* after them that holds no marker of that grammar.
AroundText == { <<>>, <<"x">>, <<"]">>, <<"[", "x">> }
TwoBlockDocs ==
  { <<p, b1, m, b2, q>> :
      p \in AroundText, m \in AroundText, q \in AroundText,
      b1 \in {QBlockEmpty, QBlockText}, b2 \in {QBlockEmpty, QBlockText} }
  \cup
  { <<p, b1, m, b2, q>> :
      p \in AroundText, m \in AroundText, q \in AroundText,
      b1 \in {EBlockBare, EBlockRoman, EBlockOpen},
      b2 \in {EBlockBare, EBlockRoman, EBlockOpen} }

\* The sequences of at most n chunks of S.
SeqsUpTo(S, n) == UNION {[1..k -> S] : k \in 0..n}

Docs == SeqsUpTo(SegsQ, MaxSegs) \cup SeqsUpTo(SegsE, MaxSegs)
          \cup SeqsUpTo(SegsX, MaxSegs) \cup TwoBlockDocs

\* -------------------------------------------------------------- viewports

\* The whole document in view.
Whole(d) == <<[from |-> 0, to |-> StrLen(DocText(d))]>>

NonEmptyRange(r) == r.from < r.to

\* The document in view but for its k-th chunk (scrolled out or folded).
Without(d, k) ==
  SelectSeq(<<[from |-> 0, to |-> StrLen(DocText(SubSeq(d, 1, k - 1)))],
              [from |-> StrLen(DocText(SubSeq(d, 1, k))),
               to |-> StrLen(DocText(d))]>>,
            NonEmptyRange)

\* The chunk out of view is the second one.
Hidden == {2}

Viewports(d) ==
  {Whole(d)} \cup ({Without(d, k) : k \in Hidden \cap (1..Len(d))} \ {<<>>})

\* ------------------------------------------------------------ view plugins

\* No call in progress.
Idle == [pc |-> "idle"]

\* No modal is open.
NoModal == [pc |-> "none"]

\* this.decorations = findAndDecorateQuestionEnvBlocks(view): the plugin
\* after the assignment, given the finished call s.  A call that threw
\* leaves the plugin as it was.  blocks keeps the iterations of the call
\* that produced the decorations.
QAssign(plugin, s) ==
  IF s.pc = "threw" THEN [plugin EXCEPT !.crashed = TRUE]
  ELSE [decorations |-> s.builder.ranges, blocks |-> s.blocks, crashed |-> FALSE]

EAssign(plugin, s) ==
  IF s.pc = "threw" THEN [plugin EXCEPT !.crashed = TRUE]
  ELSE [decorations |-> s.builder.ranges, blocks |-> s.blocks, crashed |-> FALSE]

NoPlugin == [decorations |-> <<>>, blocks |-> <<>>, crashed |-> FALSE]

\* The constructors of the three plugin classes, run on document d in
\* viewport v with the module-level cursors at their initial value 0.
Constructed(d, v, q, e, b) ==
  /\ doc = d
  /\ visibleRanges = v
  /\ bulldozerBlockRegex = b.lastIndex
  /\ bulldozerPlugin = QAssign(NoPlugin, b)
  /\ blockRegex = q.lastIndex
  /\ enumerateBlockRegex = e.lastIndex
  /\ itemRegex = e.itemLastIndex
  /\ questionEnvPlugin = QAssign(NoPlugin, q)
  /\ enumeratePlugin = EAssign(NoPlugin, e)
  /\ calls = <<>>
  /\ helper = Idle
  /\ modal = NoModal

Construct(d, v) ==
  Constructed(d, v, findAndDecorateQuestionEnvBlocks(0, DocText(d)),
              findAndDecorateEnumerateBlocks(0, 0, DocText(d)),
              findAndDecorateBulldozerBlocks(0, DocText(d), v))

Init == \E d \in Docs : \E v \in Viewports(d) : Construct(d, v)

\* update(update) of the plugins for a view update of document d in viewport
\* v with docChanged, viewportChanged or selectionSet: each rescans.
Rescanned(d, v, q, e, b) ==
  /\ doc' = d
  /\ visibleRanges' = v
  /\ bulldozerBlockRegex' = b.lastIndex
  /\ bulldozerPlugin' = QAssign(bulldozerPlugin, b)
  /\ blockRegex' = q.lastIndex
  /\ enumerateBlockRegex' = e.lastIndex
  /\ itemRegex' = e.itemLastIndex
  /\ questionEnvPlugin' = QAssign(questionEnvPlugin, q)
  /\ enumeratePlugin' = EAssign(enumeratePlugin, e)
  /\ UNCHANGED <<calls, helper>>

Rescan(d, v) ==
  Rescanned(d, v, findAndDecorateQuestionEnvBlocks(blockRegex, DocText(d)),
            findAndDecorateEnumerateBlocks(enumerateBlockRegex, itemRegex,
                                           DocText(d)),
            findAndDecorateBulldozerBlocks(bulldozerBlockRegex, DocText(d), v))

\* A view update with viewportChanged or selectionSet and the document as is.
UpdateView ==
  /\ doc' = doc
  /\ \E v \in Viewports(doc) : Rescan(doc, v)
  /\ UNCHANGED modal

\* A view update with none of docChanged, viewportChanged, selectionSet
\* (a focus change, say): update() changes nothing.
UpdateOther == UNCHANGED vars

Next == UpdateView \/ UpdateOther

Spec == Init /\ [][Next]_vars

\* ------------------------------------------------------- edited documents

\* Chunks a user types or removes in one change.
EditSegs ==
  { <<BeginQ, "[", "n", "]">>, <<EndQ>>, <<BeginE>>, <<Item>>, <<EndE>>,
    <<"x">>, QBlockEmpty, <<BeginE, Item, EndE>> }

InsertChunk(d, k, c) == SubSeq(d, 1, k) \o <<c>> \o SubSeq(d, k + 1, Len(d))
DeleteChunk(d, k) == SubSeq(d, 1, k - 1) \o SubSeq(d, k + 1, Len(d))

\* The editor opens on an empty note.
InitEdit == Construct(<<>>, Whole(<<>>))

\* A view update with docChanged: text inserted; both plugins rescan.
InsertText ==
  /\ Len(doc) < MaxEditSegs
  /\ \E k \in 0..Len(doc), c \in EditSegs :
       Rescan(InsertChunk(doc, k, c), Whole(InsertChunk(doc, k, c)))
  /\ UNCHANGED modal

\* A view update with docChanged: text deleted; both plugins rescan.
DeleteText ==
  /\ \E k \in 1..Len(doc) :
       Rescan(DeleteChunk(doc, k), Whole(DeleteChunk(doc, k)))
  /\ UNCHANGED modal

NextEdit == InsertText \/ DeleteText \/ UpdateView \/ UpdateOther

SpecEdit == InitEdit /\ [][NextEdit]_vars

\* ------------------------------------------------------ interleaved calls

\* Documents of the calls that are interleaved.
CallSegs(grammar) ==
  IF grammar = "questionenv"
  THEN {QBlockText, <<"x">>}
  ELSE {<<BeginE, Item, EndE>>, <<"x">>}

\* Two calls of the scanner of one grammar on two different documents, not
\* yet entered; the module-level cursors at their initial value.
InitInterleaved ==
  /\ \E grammar \in {"questionenv", "enumerate"} :
       \E d1 \in SeqsUpTo(CallSegs(grammar), MaxCallSegs),
          d2 \in SeqsUpTo(CallSegs(grammar), MaxCallSegs) :
         /\ d1 # d2
         /\ calls = <<[grammar |-> grammar, text |-> DocText(d1), s |-> Idle],
                      [grammar |-> grammar, text |-> DocText(d2), s |-> Idle]>>
  /\ doc = <<>>
  /\ blockRegex = 0
  /\ enumerateBlockRegex = 0
  /\ itemRegex = 0
  /\ questionEnvPlugin = NoPlugin
  /\ enumeratePlugin = NoPlugin
  /\ visibleRanges = Whole(<<>>)
  /\ bulldozerBlockRegex = 0
  /\ bulldozerPlugin = NoPlugin
  /\ helper = Idle
  /\ modal = NoModal

\* Call c of findAndDecorateQuestionEnvBlocks has come to s: its locals are
\* its own, the cursor is the module's.
QCallAt(c, s) ==
  /\ calls' = [calls EXCEPT ![c].s = s]
  /\ blockRegex' = s.lastIndex
  /\ UNCHANGED <<doc, enumerateBlockRegex, itemRegex, questionEnvPlugin,
                 enumeratePlugin, visibleRanges, bulldozerBlockRegex,
                 bulldozerPlugin, helper, modal>>

\* Call c of findAndDecorateEnumerateBlocks has come to s.
ECallAt(c, s) ==
  /\ calls' = [calls EXCEPT ![c].s = s]
  /\ enumerateBlockRegex' = s.lastIndex
  /\ itemRegex' = s.itemLastIndex
  /\ UNCHANGED <<doc, blockRegex, questionEnvPlugin, enumeratePlugin,
                 visibleRanges, bulldozerBlockRegex, bulldozerPlugin, helper,
                 modal>>

\* Call c enters findAndDecorateQuestionEnvBlocks.
QCallEnter(c) ==
  /\ c \in 1..Len(calls)
  /\ calls[c].grammar = "questionenv" /\ calls[c].s.pc = "idle"
  /\ QCallAt(c, QEnter(blockRegex, calls[c].text))

\* Call c evaluates blockRegex.exec(text), on the cursor as it finds it, and
\* runs the loop body.
QCallIterate(c) ==
  /\ c \in 1..Len(calls)
  /\ calls[c].grammar = "questionenv" /\ calls[c].s.pc = "loop"
  /\ \E e \in {Exec("blockRegex", calls[c].text, blockRegex)} :
       \E s \in {QLoopBody([calls[c].s EXCEPT !.lastIndex = blockRegex], e)} :
         QCallAt(c, s)

\* Call c enters findAndDecorateEnumerateBlocks.
ECallEnter(c) ==
  /\ c \in 1..Len(calls)
  /\ calls[c].grammar = "enumerate" /\ calls[c].s.pc = "idle"
  /\ ECallAt(c, EEnter(enumerateBlockRegex, itemRegex, calls[c].text))

\* Call c evaluates enumerateBlockRegex.exec(text), on the cursor as it finds
\* it, and runs the body of the outer loop up to the item loop.
ECallBlock(c) ==
  /\ c \in 1..Len(calls)
  /\ calls[c].grammar = "enumerate" /\ calls[c].s.pc = "loop"
  /\ \E e \in {Exec("enumerateBlockRegex", calls[c].text, enumerateBlockRegex)} :
       \E s \in {EBlockBody([calls[c].s EXCEPT !.lastIndex = enumerateBlockRegex,
                                               !.itemLastIndex = itemRegex], e)} :
         ECallAt(c, s)

\* Call c evaluates itemRegex.exec(blockContent), on the cursor as it finds
\* it, and runs the body of the inner loop.
ECallItem(c) ==
  /\ c \in 1..Len(calls)
  /\ calls[c].grammar = "enumerate" /\ calls[c].s.pc = "items"
  /\ \E e \in {Exec("itemRegex", calls[c].s.blockContent, itemRegex)} :
       \E s \in {EItemBody([calls[c].s EXCEPT !.lastIndex = enumerateBlockRegex,
                                              !.itemLastIndex = itemRegex], e)} :
         ECallAt(c, s)

NextInterleaved ==
  \E c \in {1, 2} :
    \/ QCallEnter(c)
    \/ QCallIterate(c)
    \/ ECallEnter(c)
    \/ ECallBlock(c)
    \/ ECallItem(c)

SpecInterleaved == InitInterleaved /\ [][NextInterleaved]_vars

\* ------------------------------------------------- calls of parseFormat

\* Longest text written between the brackets of a bracket argument.
MaxFormatLen == 3

\* Characters written between the brackets: the five alphabet characters,
\* the parenthesis and the punctuation of the format shape, whitespace and
\* a character foreign to the shape.
FormatChars == {"(", "1", "a", "A", "i", "I", ".", ")", " ", "\t", "x"}

\* What match[1] of enumerateBlockRegex can be: undefined, or a bracketed
\* text that holds no "]".
FormatArgs ==
  {Undefined}
  \cup {Captured(<<"[">> \o w \o <<"]">>) : w \in SeqsUpTo(FormatChars, MaxFormatLen)}

\* The modules are loaded: the cursors of their patterns are 0 and no editor
\* is open.
NoEditor ==
  /\ doc = <<>>
  /\ blockRegex = 0
  /\ enumerateBlockRegex = 0
  /\ itemRegex = 0
  /\ questionEnvPlugin = NoPlugin
  /\ enumeratePlugin = NoPlugin
  /\ visibleRanges = Whole(<<>>)
  /\ bulldozerBlockRegex = 0
  /\ bulldozerPlugin = NoPlugin
  /\ modal = NoModal

\* The modules are loaded and no scanner is called.
ModuleLoaded == NoEditor /\ calls = <<>>

editorVars == <<doc, blockRegex, enumerateBlockRegex, itemRegex,
                questionEnvPlugin, enumeratePlugin, calls,
                visibleRanges, bulldozerBlockRegex, bulldozerPlugin, modal>>

\* parseFormat is called with a bracket argument.
InitParse ==
  /\ ModuleLoaded
  /\ \E a \in FormatArgs :
       helper = [fn |-> "parseFormat", pc |-> "called", formatArg |-> a]

\* The call runs and returns: out is the returned format, with whether a
\* diagnostic was written and the text it names.
ParseFormat ==
  /\ helper.pc = "called" /\ helper.fn = "parseFormat"
  /\ helper' = [fn |-> "parseFormat", pc |-> "returned",
                formatArg |-> helper.formatArg,
                out |-> parseFormatRun(helper.formatArg)]
  /\ UNCHANGED editorVars

NextParse == ParseFormat

SpecParse == InitParse /\ [][NextParse]_vars

\* ----------------------------------------- calls of the ordinal generator

\* Largest counter the generator is called with.
MaxCounter == 4001

Counters == (0 - 1)..MaxCounter

\* Bracket arguments of the formats the generator is called with.
GenFormatArgs ==
  { Undefined,
    Captured(<<"[", "a", "]">>), Captured(<<"[", "A", ")", "]">>),
    Captured(<<"[", "(", "A", ")", "]">>),
    Captured(<<"[", "i", "]">>), Captured(<<"[", "(", "i", ")", "]">>),
    Captured(<<"[", "I", ".", "]">>), Captured(<<"[", "(", "1", ")", "]">>) }

\* generateIdentifier is called with a counter and a parsed format.
InitGenerate ==
  /\ ModuleLoaded
  /\ \E counter \in Counters, a \in GenFormatArgs :
       helper = [fn |-> "generateIdentifier", pc |-> "called",
                 counter |-> counter, format |-> parseFormat(a)]

\* The call runs and returns the label.
GenerateIdentifier ==
  /\ helper.pc = "called" /\ helper.fn = "generateIdentifier"
  /\ helper' = [fn |-> "generateIdentifier", pc |-> "returned",
                counter |-> helper.counter, format |-> helper.format,
                out |-> generateIdentifier(helper.counter, helper.format)]
  /\ UNCHANGED editorVars

NextGenerate == GenerateIdentifier

SpecGenerate == InitGenerate /\ [][NextGenerate]_vars

\* --------------------------------------------------- calls, step by step

\* Largest number of chunks of a document scanned step by step.
MaxStepSegs == 2
\* Largest counter of the first counters the generator loops are run on.
MaxStepCounter == 60

\* Chunks of the documents scanned step by step.
StepSegs ==
  { <<"x">>, <<BeginE>>, <<EndE>>, <<Item>>,
    QBlockEmpty, QBlockText, EBlockBare, EBlockRoman }

StepDocs == SeqsUpTo(StepSegs, MaxStepSegs)

\* Counters the generator loops are run on: the first ones, and large ones.
StepCounters == (0..MaxStepCounter) \cup {1994, 3888, 3999, 4000}

\* A scanner is called on a document, or a generator function on a counter;
\* nothing of the call has run yet.
InitSteps ==
  /\ NoEditor
  /\ \/ /\ \E grammar \in {"questionenv", "enumerate"}, d \in StepDocs :
             calls = <<[grammar |-> grammar, text |-> DocText(d), s |-> Idle]>>
        /\ helper = Idle
     \/ /\ calls = <<>>
        /\ \E fn \in {"numberToLetter", "numberToRoman"}, n \in StepCounters :
             helper = [fn |-> fn, pc |-> "called", n |-> n]

\* The scanner has returned and is called again, on any document (the next
\* view update).
CallAgain ==
  /\ Len(calls) = 1 /\ calls[1].s.pc = "return"
  /\ \E d \in StepDocs :
       calls' = <<[grammar |-> calls[1].grammar, text |-> DocText(d), s |-> Idle]>>
  /\ UNCHANGED <<doc, blockRegex, enumerateBlockRegex, itemRegex,
                 questionEnvPlugin, enumeratePlugin, visibleRanges,
                 bulldozerBlockRegex, bulldozerPlugin, helper, modal>>

\* numberToLetter(n) up to its loop.
LetterEnter ==
  /\ helper.pc = "called" /\ helper.fn = "numberToLetter"
  /\ helper' = [fn |-> helper.fn, pc |-> "loop", n |-> helper.n,
                s |-> numberToLetterEnter(helper.n)]
  /\ UNCHANGED editorVars

\* The while condition of numberToLetter holds: the body.
LetterIterate ==
  /\ helper.pc = "loop" /\ helper.fn = "numberToLetter"
  /\ helper.s.n > 0
  /\ helper' = [helper EXCEPT !.s = numberToLetterBody(@)]
  /\ UNCHANGED editorVars

\* The while condition of numberToLetter fails: return letters.
LetterReturn ==
  /\ helper.pc = "loop" /\ helper.fn = "numberToLetter"
  /\ ~(helper.s.n > 0)
  /\ helper' = [fn |-> helper.fn, pc |-> "returned", n |-> helper.n,
                out |-> helper.s.letters]
  /\ UNCHANGED editorVars

\* numberToRoman(num) up to its loops, or its return for a num out of range.
RomanEnter ==
  /\ helper.pc = "called" /\ helper.fn = "numberToRoman"
  /\ helper' = IF helper.n <= 0 \/ helper.n >= 4000
               THEN [fn |-> helper.fn, pc |-> "returned", n |-> helper.n,
                     out |-> toString(helper.n)]
               ELSE [fn |-> helper.fn, pc |-> "loop", n |-> helper.n,
                     s |-> numberToRomanEnter(helper.n)]
  /\ UNCHANGED editorVars

\* A key is left: the while condition of numberToRoman is evaluated for it.
RomanIterate ==
  /\ helper.pc = "loop" /\ helper.fn = "numberToRoman"
  /\ helper.s.k <= Len(romanKeys)
  /\ helper' = [helper EXCEPT !.s = numberToRomanBody(@)]
  /\ UNCHANGED editorVars

\* No key is left: return roman.
RomanReturn ==
  /\ helper.pc = "loop" /\ helper.fn = "numberToRoman"
  /\ ~(helper.s.k <= Len(romanKeys))
  /\ helper' = [fn |-> helper.fn, pc |-> "returned", n |-> helper.n,
                out |-> helper.s.roman]
  /\ UNCHANGED editorVars

\* A step of the call that is running.
RunStep ==
  \/ QCallEnter(1)
  \/ QCallIterate(1)
  \/ ECallEnter(1)
  \/ ECallBlock(1)
  \/ ECallItem(1)
  \/ LetterEnter
  \/ LetterIterate
  \/ LetterReturn
  \/ RomanEnter
  \/ RomanIterate
  \/ RomanReturn

NextSteps == RunStep \/ CallAgain

\* A call is under way: a step of it is enabled (every step assigns the
\* result of a total function, and changes the position of the call).
Running ==
  \/ Len(calls) = 1 /\ calls[1].s.pc \in {"idle", "loop", "items"}
  \/ helper.pc \in {"called", "loop"}

\* A function that was called runs on: JavaScript runs it to completion.
\* This is WF_vars(RunStep) with Running written for ENABLED <<RunStep>>_vars.
RunToCompletion == []<>(~Running) \/ []<><<RunStep>>_vars

SpecSteps == InitSteps /\ [][NextSteps]_vars /\ RunToCompletion

\* ------------------------------------------- clicks on the start markers

\* Largest number of chunks of a document whose start markers are clicked.
MaxClickSegs == 2

\* Math.max(a, b) and Math.min(a, b)
MathMax(a, b) == IF a >= b THEN a ELSE b
MathMin(a, b) == IF a <= b THEN a ELSE b

\* n ordinary characters typed by the user.
Typed(n) == [k \in 1..n |-> "x"]

\* view.state.update({changes: {from, to, insert}}): the new document text.
ApplyChange(text, change) ==
  Slice(text, 0, change.from) \o change.insert
    \o Slice(text, change.to, StrLen(text))

\* The document that holds text.
DocOf(text) == IF text = <<>> THEN <<>> ELSE <<text>>

\* No change (yet).
NoChange == [from |-> 0, to |-> 0, insert |-> <<>>]

\* localBlockRegex = /\\begin{enumerate}(\[[^\]]*\])?/g tried at lexeme i.
LocalBlockMatchAt(text, i, index) ==
  IF ~(i <= Len(text) /\ text[i] = BeginE) THEN NoMatch
  ELSE LET j == IF i + 1 <= Len(text) /\ text[i + 1] = "["
                THEN IndexFrom(text, "]", i + 2) ELSE 0
       IN IF j # 0
          THEN [found |-> TRUE, index |-> index,
                all |-> SubSeq(text, i, j), g1 |-> Captured(SubSeq(text, i + 1, j))]
          ELSE [found |-> TRUE, index |-> index,
                all |-> <<text[i]>>, g1 |-> Undefined]

\* The leftmost match of localBlockRegex that starts at an offset >= lastIndex.
RECURSIVE LocalBlockFirstMatch(_, _, _, _)
LocalBlockFirstMatch(text, i, index, lastIndex) ==
  IF i > Len(text) THEN NoMatch
  ELSE IF index >= lastIndex /\ LocalBlockMatchAt(text, i, index).found
  THEN LocalBlockMatchAt(text, i, index)
  ELSE LocalBlockFirstMatch(text, i + 1, index + Len(text[i]), lastIndex)

\* let blockStartOffset = -1, formatStartOffset = -1, formatEndOffset = -1;
\* let currentFullFormat = undefined
ENotFound ==
  [blockStartOffset |-> 0 - 1, formatStartOffset |-> 0 - 1,
   formatEndOffset |-> 0 - 1, currentFullFormat |-> Undefined]

\* formatEndOffset of the mousedown handler of createEnumeratePlugin.
EFormatEndOffset(currentFullFormat) ==
  IF currentFullFormat.defined
  THEN Len("\\begin{enumerate}") + StrLen(currentFullFormat.s)
  ELSE Len("\\begin{enumerate}")

\* The while loop of the mousedown handler of createEnumeratePlugin, from
\* the cursor lastIndex of localBlockRegex; ELocalBody is its body for the
\* result e of localBlockRegex.exec(searchContext).
RECURSIVE ELocalLoop(_, _, _, _)
ELocalBody(searchContext, searchFrom, widgetPos, e) ==
  IF ~e.match.found THEN ENotFound
  ELSE IF /\ searchFrom + e.match.index <= widgetPos
          /\ searchFrom + e.match.index + StrLen(e.match.all) >= widgetPos
  THEN [blockStartOffset |-> searchFrom + e.match.index,
        formatStartOffset |-> Len("\\begin{enumerate}"),
        formatEndOffset |-> EFormatEndOffset(e.match.g1),
        currentFullFormat |-> e.match.g1]
  ELSE ELocalLoop(searchContext, searchFrom, widgetPos, e.lastIndex)

ELocalLoop(searchContext, searchFrom, widgetPos, lastIndex) ==
  ELocalBody(searchContext, searchFrom, widgetPos,
             ExecResult(LocalBlockFirstMatch(searchContext, 1, 0, lastIndex)))

\* The mousedown handler of createEnumeratePlugin up to the modal: the
\* search of the block start in the text around widgetPos.
EFindBlock(widgetPos, text) ==
  ELocalLoop(Slice(text, MathMax(0, widgetPos - 50),
                   MathMin(StrLen(text), widgetPos + 50)),
             MathMax(0, widgetPos - 50), widgetPos, 0)

\* The callback of EnumerateFormatModal for newValue: the change it
\* dispatches.
EFormatChange(found, newValue) ==
  [from |-> found.blockStartOffset + found.formatStartOffset,
   to |-> found.blockStartOffset + found.formatEndOffset,
   insert |-> IF newValue # <<>> /\ trim(newValue) # <<>>
              THEN <<"[">> \o trim(newValue) \o <<"]">> ELSE <<>>]

\* specificBlockRegex = new RegExp(`\\\\begin{questionenv}\\[${escapedName}\\]`,
\* 'g') tried at lexeme i: the begin literal and the name in brackets.
SpecificBlockMatchAt(name, text, i, index) ==
  IF /\ i + Len(name) + 2 <= Len(text)
     /\ text[i] = BeginQ
     /\ SubSeq(text, i + 1, i + Len(name) + 2) = <<"[">> \o name \o <<"]">>
  THEN [found |-> TRUE, index |-> index,
        all |-> SubSeq(text, i, i + Len(name) + 2)]
  ELSE NoMatch

\* The leftmost match of specificBlockRegex that starts at an offset >=
\* lastIndex.
RECURSIVE SpecificBlockFirstMatch(_, _, _, _, _)
SpecificBlockFirstMatch(name, text, i, index, lastIndex) ==
  IF i > Len(text) THEN NoMatch
  ELSE IF index >= lastIndex /\ SpecificBlockMatchAt(name, text, i, index).found
  THEN SpecificBlockMatchAt(name, text, i, index)
  ELSE SpecificBlockFirstMatch(name, text, i + 1, index + Len(text[i]), lastIndex)

\* The while loop of the mousedown handler of createQuestionEnvPlugin:
\* blockStartOffset, -1 when no match holds widgetPos.
RECURSIVE QLocalLoop(_, _, _, _, _)
QLocalBody(name, searchContext, searchFrom, widgetPos, e) ==
  IF ~e.match.found THEN 0 - 1
  ELSE IF /\ searchFrom + e.match.index <= widgetPos
          /\ searchFrom + e.match.index + StrLen(e.match.all) >= widgetPos
  THEN searchFrom + e.match.index
  ELSE QLocalLoop(name, searchContext, searchFrom, widgetPos, e.lastIndex)

QLocalLoop(name, searchContext, searchFrom, widgetPos, lastIndex) ==
  QLocalBody(name, searchContext, searchFrom, widgetPos,
             ExecResult(SpecificBlockFirstMatch(name, searchContext, 1, 0,
                                                lastIndex)))

\* The mousedown handler of createQuestionEnvPlugin up to the modal: the
\* search of the block start in the text around widgetPos.
QFindBlock(widgetPos, originalName, text) ==
  QLocalLoop(originalName,
             Slice(text, MathMax(0, widgetPos - 100),
                   MathMin(StrLen(text), widgetPos + 50)),
             MathMax(0, widgetPos - 100), widgetPos, 0)

\* nameStartOffset = blockStartOffset + "\\begin{questionenv}[".length
QNameStartOffset(blockStartOffset) ==
  blockStartOffset + Len("\\begin{questionenv}") + Len("[")

\* InputModal.submit: this.inputField.value.trim() || " "
InputModalValue(raw) == IF trim(raw) # <<>> THEN trim(raw) ELSE <<" ">>

\* Whole blocks with a bracket argument or a name of n typed characters,
\* and with an empty bracket argument.
EBlockArg(n) == <<BeginE, "[">> \o Typed(n) \o <<"]", Item, EndE>>
EBlockEmptyArg == <<BeginE, "[", "]", Item, EndE>>
QBlockName(n) == <<BeginQ, "[">> \o Typed(n) \o <<"]", EndQ>>

\* Chunks of the documents whose start markers are clicked: the bracket
\* arguments and the names reach the end of the text the handlers search.
ClickSegs ==
  { <<"x">>, EBlockBare, EBlockRoman, EBlockEmptyArg,
    EBlockArg(31), EBlockArg(32), QBlockEmpty, QBlockText,
    QBlockName(29), QBlockName(30) }

ClickDocs == SeqsUpTo(ClickSegs, MaxClickSegs)

\* What the user leaves in the input field of EnumerateFormatModal.
FormatInputs ==
  { <<>>, <<" ">>, <<"a">>, <<" ", "I", ".", " ">>, <<"(", "1", ")">> }

\* What the user leaves in the input field of InputModal.
TitleInputs ==
  { <<>>, <<" ", " ">>, <<"n">>, <<"t">>, <<" ", "t", "2", " ">>,
    <<"a", "]", "b">> }

\* Everything but the modal.
viewVars == <<doc, blockRegex, enumerateBlockRegex, itemRegex,
              questionEnvPlugin, enumeratePlugin, calls,
              visibleRanges, bulldozerBlockRegex, bulldozerPlugin, helper>>

\* The editor opens on a note.
InitClick == \E d \in ClickDocs : Construct(d, Whole(d))

\* The handler has found the block and opens EnumerateFormatModal; clicked
\* is the scanned block whose widget was clicked and before the document
\* text at the click.
EModalOpened(block, found) ==
  modal' = IF found.blockStartOffset = 0 - 1 THEN modal
           ELSE [pc |-> "open", kind |-> "EnumerateFormatModal",
                 clicked |-> block, before |-> DocText(doc),
                 found |-> found, raw |-> <<>>, newValue |-> <<>>,
                 change |-> NoChange]

\* mousedown on the format box of the start widget of an ordered list:
\* view.posAtDOM gives the position at which the widget stands.
EMouseDown ==
  /\ modal.pc = "none"
  /\ \E k \in 1..Len(enumeratePlugin.blocks) :
       EModalOpened(enumeratePlugin.blocks[k],
                    EFindBlock(enumeratePlugin.blocks[k].o.blockStartIndex, DocText(doc)))
  /\ UNCHANGED viewVars

\* view.dispatch(transaction) of a modal callback: the change is applied and
\* the view update (docChanged) has the plugins rescan.
Dispatched(raw, newValue, change, text) ==
  /\ modal' = [modal EXCEPT !.pc = "dispatched", !.raw = raw,
                            !.newValue = newValue, !.change = change]
  /\ Rescan(DocOf(text), Whole(DocOf(text)))

\* EnumerateFormatModal.submit for raw, what the input field holds: onSubmit
\* is called with the trimmed value and dispatches the change.
ESubmitted(raw, newValue) ==
  Dispatched(raw, newValue, EFormatChange(modal.found, newValue),
             ApplyChange(DocText(doc), EFormatChange(modal.found, newValue)))

ESubmit ==
  /\ modal.pc = "open" /\ modal.kind = "EnumerateFormatModal"
  /\ \E raw \in FormatInputs : ESubmitted(raw, trim(raw))

\* The handler has found the block and opens InputModal.
QModalOpened(block, originalName, blockStartOffset) ==
  modal' = IF blockStartOffset = 0 - 1 THEN modal
           ELSE [pc |-> "open", kind |-> "InputModal",
                 clicked |-> block, before |-> DocText(doc),
                 originalName |-> originalName,
                 nameStartOffset |-> QNameStartOffset(blockStartOffset),
                 nameEndOffset |-> QNameStartOffset(blockStartOffset)
                                     + StrLen(originalName),
                 raw |-> <<>>, newValue |-> <<>>, change |-> NoChange]

\* mousedown on the name box of the start widget of a named block; the
\* widget carries the name it was built with.
QMouseDown ==
  /\ modal.pc = "none"
  /\ \E k \in 1..Len(questionEnvPlugin.blocks) :
       QModalOpened(questionEnvPlugin.blocks[k],
                    questionEnvPlugin.decorations[questionEnvPlugin.blocks[k].at].data.s,
                    QFindBlock(questionEnvPlugin.blocks[k].o.blockStartIndex,
                               questionEnvPlugin.decorations[
                                 questionEnvPlugin.blocks[k].at].data.s,
                               DocText(doc)))
  /\ UNCHANGED viewVars

\* The callback of InputModal for newValue: the name is replaced when
\* newValue differs from it.
QNameChange(newValue) ==
  [from |-> modal.nameStartOffset, to |-> modal.nameEndOffset,
   insert |-> newValue]

QSubmitted(raw, newValue) ==
  IF newValue # <<>> /\ newValue # modal.originalName
  THEN Dispatched(raw, newValue, QNameChange(newValue),
                  ApplyChange(DocText(doc), QNameChange(newValue)))
  ELSE /\ modal' = [modal EXCEPT !.pc = "unchanged", !.raw = raw,
                                 !.newValue = newValue]
       /\ UNCHANGED viewVars

QSubmit ==
  /\ modal.pc = "open" /\ modal.kind = "InputModal"
  /\ \E raw \in TitleInputs : QSubmitted(raw, InputModalValue(raw))

\* The modal is closed without a submission.
CloseModal ==
  /\ modal.pc = "open"
  /\ modal' = NoModal
  /\ UNCHANGED viewVars

NextClick == EMouseDown \/ ESubmit \/ QMouseDown \/ QSubmit \/ CloseModal

SpecClick == InitClick /\ [][NextClick]_vars

\* ------------------------------------------------------ what the checks use

\* The document text of the current state.
Text == DocText(doc)

\* Offsets of a match taken from the lexemes it covers, independently of the
\* scanner's arithmetic: where it starts, where its content starts and ends,
\* and where it ends.
StartOffset(text, m)  == Off(text, m.lex.start)
ContentStart(text, m) == Off(text, m.lex.content)
ContentEnd(text, m)   == Off(text, m.lex.end)
EndOffset(text, m)    == Off(text, m.lex.end + 1)

\* The ranges a plugin holds for its n-th block: from the block's first range
\* up to the first range of the next block.
NextAt(plugin, n) ==
  IF n < Len(plugin.blocks) THEN plugin.blocks[n + 1].at
  ELSE Len(plugin.decorations) + 1

RangesOf(plugin, n) ==
  LET lo == plugin.blocks[n].at
      hi == NextAt(plugin, n) - 1
  IN IF 1 <= lo /\ lo <= hi + 1 /\ hi <= Len(plugin.decorations)
     THEN SubSeq(plugin.decorations, lo, hi)
     ELSE <<>>

\* ---------------------------------------------------------------------- C1
\* The ranges of every block of the plugin, read against the document text:
\* a start range over \begin{questionenv}[name] that carries name, a mark
\* range over the content if it is not empty, an end range over
\* \end{questionenv}, contiguous, inside one visible range.
TiledInView(p) ==
  /\ ~p.crashed
  /\ (p.blocks = <<>>) = (p.decorations = <<>>)
  /\ p.blocks # <<>> => p.blocks[1].at = 1
  /\ \A n \in 1..Len(p.blocks) :
       LET rs == RangesOf(p, n)
           first == rs[1]
           last == rs[Len(rs)]
           name == first.data.s
       IN /\ Len(rs) \in {2, 3}
          /\ first.kind = "ReplaceStart"
          /\ name # <<>> /\ \A q \in 1..Len(name) : name[q] # "]"
          /\ Slice(Text, first.from, first.to) = <<BeginQ, "[">> \o name \o <<"]">>
          /\ last = Range(last.from, last.from + Len(EndQ), "ReplaceEnd", Undefined)
          /\ Slice(Text, last.from, last.to) = <<EndQ>>
          /\ first.to <= last.from
          /\ rs = <<first>>
                  \o (IF first.to < last.from
                      THEN <<Range(first.to, last.from, "Mark", Undefined)>>
                      ELSE <<>>)
                  \o <<last>>
          /\ \E k \in 1..Len(visibleRanges) :
               /\ visibleRanges[k].from <= first.from
               /\ last.to <= visibleRanges[k].to

\* C1: for every match of the named-block scanner the ranges emitted are, in
\* order, a start range [startOffset, contentStart) that covers
\* \begin{questionenv}[name] and carries exactly the name written between the
\* brackets, a mark range [contentStart, contentEnd) if and only if the
\* content is not empty, and an end range [contentEnd, endOffset); they tile
\* [startOffset, endOffset), and the plugin holds no other range.  The same
\* holds of the scanner of main.ts for the matches inside its visible ranges.
C1_NamedBlockTiling ==
  LET p == questionEnvPlugin
  IN /\ TiledInView(bulldozerPlugin)
     /\ ~p.crashed
     /\ (p.blocks = <<>>) = (p.decorations = <<>>)
     /\ p.blocks # <<>> => p.blocks[1].at = 1
     /\ \A n \in 1..Len(p.blocks) :
          LET m == p.blocks[n].match
              s0 == StartOffset(Text, m)
              c0 == ContentStart(Text, m)
              c1 == ContentEnd(Text, m)
              e1 == EndOffset(Text, m)
              name == SubSeq(Text, m.lex.start + 2, m.lex.content - 2)
          IN /\ Slice(Text, s0, c0) = <<BeginQ, "[">> \o name \o <<"]">>
             /\ Slice(Text, c1, e1) = <<EndQ>>
             /\ RangesOf(p, n) =
                  <<Range(s0, c0, "ReplaceStart", Captured(name))>>
                  \o (IF c0 < c1 THEN <<Range(c0, c1, "Mark", Undefined)>> ELSE <<>>)
                  \o <<Range(c1, e1, "ReplaceEnd", Undefined)>>

\* A document with a block whose content is empty and a block whose content
\* is not, scanned, the second one also by the scanner of main.ts, in a
\* visible range that starts after the first one.
C1_Witness ==
  /\ Len(questionEnvPlugin.blocks) = 2
  /\ Len(questionEnvPlugin.decorations) = 5
  /\ questionEnvPlugin.decorations[4].kind = "Mark"
  /\ Len(visibleRanges) = 2
  /\ Len(bulldozerPlugin.blocks) = 1
  /\ bulldozerPlugin.blocks[1].from > 0
  /\ bulldozerPlugin.decorations = SubSeq(questionEnvPlugin.decorations, 3, 5)

\* ---------------------------------------------------------------------- C2
\* C2: for every match of either scanner the computed offsets satisfy
\* startOffset < contentStart <= contentEnd < endOffset, and
\* endMarkerStart + len(end literal) = matchStart + len(fullMatch); for the
\* ordered-list scanner with the bracket argument present and absent.
C2_OffsetsConsistent ==
  /\ \A n \in 1..Len(questionEnvPlugin.blocks) :
       LET o == questionEnvPlugin.blocks[n].o
           m == questionEnvPlugin.blocks[n].match
       IN /\ o.blockStartIndex < o.textStartIndex
          /\ o.textStartIndex <= o.textEndIndex
          /\ o.textEndIndex < o.blockEndIndex
          /\ o.endMarkerStartIndex + Len(EndQ) = m.index + StrLen(m.all)
  /\ \A n \in 1..Len(enumeratePlugin.blocks) :
       LET o == enumeratePlugin.blocks[n].o
           m == enumeratePlugin.blocks[n].match
       IN /\ o.blockStartIndex < o.contentStartIndex
          /\ o.contentStartIndex <= o.contentEndIndex
          /\ o.contentEndIndex < o.blockEndIndex
          /\ o.endMarkerStartIndex + Len(EndE) = m.index + StrLen(m.all)

\* An ordered-list block with a bracket argument and one without, scanned.
C2_Witness ==
  /\ \E n \in 1..Len(enumeratePlugin.blocks) :
       enumeratePlugin.blocks[n].match.g1.defined
  /\ \E n \in 1..Len(enumeratePlugin.blocks) :
       ~enumeratePlugin.blocks[n].match.g1.defined

\* ---------------------------------------------------------------------- C3
\* C3: within one scan every range added to the builder has from < to and
\* starts at or after the end of the range added before it (so no two ranges
\* of a scan overlap, within a block or across blocks), and no add throws.
Ordered(d) ==
  \A i \in 1..Len(d) :
    /\ d[i].from < d[i].to
    /\ i > 1 => d[i - 1].to <= d[i].from

C3_RangesIncreasing ==
  /\ ~questionEnvPlugin.crashed /\ Ordered(questionEnvPlugin.decorations)
  /\ ~enumeratePlugin.crashed /\ Ordered(enumeratePlugin.decorations)

\* Two ordered-list blocks with items, scanned.
C3_Witness ==
  /\ Len(enumeratePlugin.blocks) >= 2
  /\ \A n \in 1..Len(enumeratePlugin.blocks) : enumeratePlugin.blocks[n].items >= 2

\* ---------------------------------------------------------------------- C4
\* The lexemes of the content of match m that are item markers.
ItemLexemes(text, m) ==
  {q \in m.lex.content..(m.lex.end - 1) : text[q] = Item}

\* The bracket argument as written in the text behind the begin literal.
WrittenFormatArg(text, m) ==
  IF m.lex.content > m.lex.start + 1
  THEN Captured(SubSeq(text, m.lex.start + 1, m.lex.content - 1))
  ELSE Undefined

\* C4: in every ordered-list block the k-th item marker of the content, from
\* the left, is replaced by the label generateIdentifier(k, parseFormat of
\* that block's own bracket argument): the counters are 1, 2, 3, ... without
\* gap or repeat and restart at 1 in every block.
C4_ItemCounters ==
  LET p == enumeratePlugin
  IN \A n \in 1..Len(p.blocks) :
       LET m == p.blocks[n].match
           P == ItemLexemes(Text, m)
           format == parseFormat(WrittenFormatArg(Text, m))
           rs == RangesOf(p, n)
       IN /\ Len(rs) = Cardinality(P) + 2
          /\ \A q \in P :
               LET k == Cardinality({r \in P : r <= q})
               IN rs[k + 1] = Range(Off(Text, q), Off(Text, q) + Len(Item),
                                    "ReplaceItem",
                                    Captured(generateIdentifier(k, format)))

\* A Roman block with two items followed by a bare block with three items:
\* the labels are I. II. and then 1. 2. 3.
C4_Witness ==
  /\ Len(enumeratePlugin.blocks) = 2
  /\ Len(enumeratePlugin.decorations) = 9
  /\ enumeratePlugin.decorations[3].data = Captured(<<"I", "I", ".">>)
  /\ enumeratePlugin.decorations[6].data = Captured(<<"1", ".">>)
  /\ enumeratePlugin.decorations[8].data = Captured(<<"3", ".">>)

\* ---------------------------------------------------------------------- C5
\* An occurrence of the named-block grammar: a begin literal, "[", a name of
\* one or more characters other than "]", "]", and an end literal behind it.
HasQOccurrence(text) ==
  \E i \in 1..Len(text), j \in 1..Len(text), k \in 1..Len(text) :
    /\ text[i] = BeginQ /\ i + 1 <= Len(text) /\ text[i + 1] = "["
    /\ i + 2 < j /\ text[j] = "]"
    /\ \A q \in (i + 2)..(j - 1) : text[q] # "]"
    /\ j < k /\ text[k] = EndQ

\* An occurrence of the ordered-list grammar: a begin literal and an end
\* literal behind it (the bracket argument is optional).
HasEOccurrence(text) ==
  \E i \in 1..Len(text), k \in 1..Len(text) :
    text[i] = BeginE /\ i < k /\ text[k] = EndE

\* C5: a scanner whose grammar does not occur in the buffer returns an empty
\* range sequence and raises no error.
C5_NoMatchEmpty ==
  /\ ~HasQOccurrence(Text) =>
       questionEnvPlugin.decorations = <<>> /\ ~questionEnvPlugin.crashed
  /\ ~HasEOccurrence(Text) =>
       enumeratePlugin.decorations = <<>> /\ ~enumeratePlugin.crashed

\* A named-block start marker with an empty name and an end literal behind
\* it, scanned: no range.
C5_Witness ==
  /\ Text = <<BeginQ, "[", "]", EndQ>>
  /\ questionEnvPlugin.decorations = <<>>
  /\ enumeratePlugin.decorations = <<>>

\* ---------------------------------------------------------------------- C6
\* What the two plugins hold is what the scanners return for the document
\* text when the module has just been loaded (both cursors at 0).
C6_AsFirstScan ==
  /\ questionEnvPlugin =
       QAssign(NoPlugin, findAndDecorateQuestionEnvBlocks(0, Text))
  /\ enumeratePlugin =
       EAssign(NoPlugin, findAndDecorateEnumerateBlocks(0, 0, Text))

\* C6: the ranges a scan returns depend on the text only: after any sequence
\* of earlier scans of other texts, which leave their mark on the module-level
\* cursors, a scan of t returns what a scan of t returns first, and a second
\* scan of the unchanged text returns the same ranges again.
C6_ScanDependsOnTextOnly ==
  /\ []C6_AsFirstScan
  /\ [][doc' = doc =>
          /\ questionEnvPlugin'.decorations = questionEnvPlugin.decorations
          /\ enumeratePlugin'.decorations = enumeratePlugin.decorations]_vars

\* A document of three chunks with blocks of both grammars, reached from the
\* empty note by edits, each followed by a scan of a different text.
C6_Witness ==
  /\ Len(doc) = 3
  /\ Len(questionEnvPlugin.blocks) >= 1
  /\ Len(enumeratePlugin.blocks) >= 1
  /\ Len(questionEnvPlugin.blocks) + Len(enumeratePlugin.blocks) = 3
  /\ questionEnvPlugin.blocks[1].match.index > 0

\* ---------------------------------------------------------------------- C7
\* The ranges a call returns when it runs alone, from freshly loaded modules.
AloneRanges(call) ==
  IF call.grammar = "questionenv"
  THEN findAndDecorateQuestionEnvBlocks(0, call.text).builder.ranges
  ELSE findAndDecorateEnumerateBlocks(0, 0, call.text).builder.ranges

Intersect(r1, r2) == r1.from < r2.to /\ r2.from < r1.to

\* C8 as stated: no range of one scanner intersects a range of the other.
C8_Original_NoCrossOverlap ==
  \A i \in 1..Len(questionEnvPlugin.decorations),
     j \in 1..Len(enumeratePlugin.decorations) :
    ~Intersect(questionEnvPlugin.decorations[i], enumeratePlugin.decorations[j])

\* The marker literal a range decorates: the begin literal of a start range,
\* the whole of an end or item range, nothing of a mark range.
LiteralSpan(r, begin) ==
  CASE r.kind = "Mark" -> [from |-> r.from, to |-> r.from]
    [] r.kind = "ReplaceStart" -> [from |-> r.from, to |-> r.from + Len(begin)]
    [] OTHER -> [from |-> r.from, to |-> r.to]

\* C8 (amended): the begin-, end- and item-literal spans decorated by one
\* scanner never intersect those decorated by the other; two ranges of the
\* two scanners intersect only where a mark range or the bracket argument of
\* a start range covers text of the other grammar.
C8_LiteralSpansDisjoint ==
  \A i \in 1..Len(questionEnvPlugin.decorations),
     j \in 1..Len(enumeratePlugin.decorations) :
    ~Intersect(LiteralSpan(questionEnvPlugin.decorations[i], BeginQ),
               LiteralSpan(enumeratePlugin.decorations[j], BeginE))

\* An ordered list inside a named block, scanned: the mark range of the named
\* block covers the ranges of the list.
C8_Witness ==
  \E i \in 1..Len(questionEnvPlugin.decorations),
     j \in 1..Len(enumeratePlugin.decorations) :
    /\ questionEnvPlugin.decorations[i].kind = "Mark"
    /\ enumeratePlugin.decorations[j].kind = "ReplaceItem"
    /\ Intersect(questionEnvPlugin.decorations[i], enumeratePlugin.decorations[j])

\* ---------------------------------------------------------------------- C9
\* Offset of the first lexeme lit of text at an offset >= offset, -1 if none.
FirstLiteralOffset(text, lit, offset) ==
  LET S == {q \in 1..Len(text) : text[q] = lit /\ Off(text, q) >= offset}
  IN IF S = {} THEN 0 - 1 ELSE Off(text, Min(S))

\* The end range of every block of a plugin is the first end literal at an
\* offset >= the end of the block's start range (afterMarker) or >= its start.
EndsAtFirstLiteral(plugin, lit, afterMarker) ==
  \A n \in 1..Len(plugin.blocks) :
    LET rs == RangesOf(plugin, n)
        a == FirstLiteralOffset(Text, lit,
                                IF afterMarker THEN rs[1].to ELSE rs[1].from)
    IN /\ Len(rs) >= 2
       /\ rs[Len(rs)].kind = "ReplaceEnd"
       /\ rs[Len(rs)].from = a
       /\ rs[Len(rs)].to = a + Len(lit)

\* C9 as stated: the end range of every block is the first end literal after
\* the block's start offset.
C9_Original_NearestAfterStart ==
  /\ EndsAtFirstLiteral(questionEnvPlugin, EndQ, FALSE)
  /\ EndsAtFirstLiteral(enumeratePlugin, EndE, FALSE)

\* C9 (amended): the end range of every block is the first end literal at or
\* after the end of its start marker (the begin literal with its bracket
\* argument), so the content holds no end literal; an end literal inside the
\* bracket argument does not close the block.
C9_NearestAfterStartMarker ==
  /\ EndsAtFirstLiteral(questionEnvPlugin, EndQ, TRUE)
  /\ EndsAtFirstLiteral(enumeratePlugin, EndE, TRUE)

\* Nested ordered lists, scanned: the content of a block holds a begin
\* literal and an end literal follows the block.
C9_Witness ==
  \E n \in 1..Len(enumeratePlugin.blocks) :
    LET m == enumeratePlugin.blocks[n].match
    IN /\ \E q \in m.lex.content..(m.lex.end - 1) : Text[q] = BeginE
       /\ \E q \in (m.lex.end + 1)..Len(Text) : Text[q] = EndE

\* --------------------------------------------------------------------- C10
\* A well-formed named block: begin literal, "[", a name without "]", "]",
\* a content without end literal, the end literal.
IsQBlock(b) ==
  /\ Len(b) >= 5 /\ b[1] = BeginQ /\ b[2] = "[" /\ b[Len(b)] = EndQ
  /\ IndexFrom(b, "]", 3) > 3
  /\ \A q \in 2..(Len(b) - 1) : b[q] # EndQ

\* A well-formed ordered-list block: begin literal, an optional bracket
\* argument, a content without end literal, the end literal.
IsEBlock(b) ==
  /\ Len(b) >= 2 /\ b[1] = BeginE /\ b[Len(b)] = EndE
  /\ \A q \in 2..(Len(b) - 1) : b[q] # EndE

\* An opening bracket right after the begin literal is closed in the block.
BracketClosed(b) == b[2] = "[" => IndexFrom(b, "]", 3) # 0

\* Text that holds no marker of the grammar.
QFree(c) == \A q \in 1..Len(c) : c[q] \notin {BeginQ, EndQ}
EFree(c) == \A q \in 1..Len(c) : c[q] \notin {BeginE, EndE}

Shift(rs, by) ==
  [i \in 1..Len(rs) |-> [rs[i] EXCEPT !.from = @ + by, !.to = @ + by]]

IsBlock(grammar, closed, b) ==
  IF grammar = "questionenv" THEN IsQBlock(b)
  ELSE IsEBlock(b) /\ (closed => BracketClosed(b))
Free(grammar, c) == IF grammar = "questionenv" THEN QFree(c) ELSE EFree(c)

\* The ranges of a document scanned alone.
Alone(grammar, b) ==
  IF grammar = "questionenv"
  THEN findAndDecorateQuestionEnvBlocks(0, b).builder.ranges
  ELSE findAndDecorateEnumerateBlocks(0, 0, b).builder.ranges

\* The chunks a and b of the document are blocks (with their brackets closed,
\* if closed is asked), every other chunk is free text: then the plugin holds
\* the ranges of block a scanned alone, shifted to its offset, followed by
\* those of block b scanned alone, shifted likewise.
TwoBlocksShifted(plugin, grammar, closed) ==
  \A a \in 1..Len(doc), b \in 1..Len(doc) :
    ( /\ a < b /\ IsBlock(grammar, closed, doc[a]) /\ IsBlock(grammar, closed, doc[b])
      /\ \A c \in 1..Len(doc) : c \notin {a, b} => Free(grammar, doc[c]) )
    => /\ ~plugin.crashed
       /\ Alone(grammar, doc[b]) # <<>>
       /\ plugin.decorations =
            Shift(Alone(grammar, doc[a]), StrLen(DocText(SubSeq(doc, 1, a - 1))))
            \o Shift(Alone(grammar, doc[b]), StrLen(DocText(SubSeq(doc, 1, b - 1))))

\* C10 as stated: for a buffer of two sequential well-formed blocks of one
\* grammar with text free of that grammar's markers before, between and after
\* them, the scanner emits the ranges of both blocks in document order, the
\* second block's ranges being those of the second block scanned alone
\* shifted by its start offset.
C10_Original_SecondBlockShifted ==
  /\ TwoBlocksShifted(questionEnvPlugin, "questionenv", FALSE)
  /\ TwoBlocksShifted(enumeratePlugin, "enumerate", FALSE)

\* C10 (amended): the same, for ordered-list blocks in which an opening
\* bracket right after the begin literal is closed inside the block.  (A
\* bracket left open is closed by the first "]" of the following text, and
\* the block then runs to the end literal of the next block.)
C10_SecondBlockShifted ==
  /\ TwoBlocksShifted(questionEnvPlugin, "questionenv", TRUE)
  /\ TwoBlocksShifted(enumeratePlugin, "enumerate", TRUE)

\* Two blocks of each kind with text before, between and after them,
\* scanned: two named blocks, or two ordered lists the first of which has a
\* bracket argument.
C10_Witness ==
  /\ Len(doc) = 5
  /\ doc[1] # <<>> /\ doc[3] # <<>> /\ doc[5] # <<>>
  /\ \/ /\ IsQBlock(doc[2]) /\ IsQBlock(doc[4]) /\ doc[2] # doc[4]
        /\ Len(questionEnvPlugin.blocks) = 2
     \/ /\ IsEBlock(doc[2]) /\ IsEBlock(doc[4]) /\ doc[2][2] = "["
        /\ Len(enumeratePlugin.blocks) = 2
        /\ enumeratePlugin.blocks[1].o.formatArg.defined

\* --------------------------------------------------------------------- C11
\* The text written between the brackets of bracket argument a.
Inner(a) == SubSeq(a.s, 2, Len(a.s) - 1)

\* A text without the whitespace before its first and after its last
\* character that is not whitespace.
Trimmed(w) ==
  LET S == {k \in 1..Len(w) : w[k] \notin {" ", "\t", "\n"}}
  IN IF S = {} THEN <<>>
     ELSE SubSeq(w, Min(S), CHOOSE x \in S : \A y \in S : y <= x)

\* The decimal default {decimal, "", "."}.
DecimalDefault == [type |-> "1", decoratorStart |-> <<>>, decoratorEnd |-> <<".">>]

Alphabets == {"1", "a", "A", "i", "I"}

\* The shape as the specification words it: an optional "(", one alphabet
\* character, an optional "." or ")".
StrictShape(t) ==
  \E p \in {<<>>, <<"(">>}, c \in Alphabets, q \in {<<>>, <<".">>, <<")">>} :
    t = p \o <<c>> \o q

\* A text no reading of the shape accepts: it holds a character foreign to
\* the shape, or not exactly one alphabet character.
ClearlyUnrecognized(t) ==
  \/ \E k \in 1..Len(t) : t[k] \notin Alphabets \cup {"(", ")", ".", " "}
  \/ Cardinality({k \in 1..Len(t) : t[k] \in Alphabets}) # 1

\* C11: parseFormat returns and never throws; it returns the decimal default
\* without a diagnostic when the bracket argument is absent or is empty or
\* whitespace-only between its brackets; it returns the decimal default with
\* a diagnostic when the text is unrecognized; a diagnostic always comes with
\* the decimal default, names exactly the trimmed text, and is never written
\* for a text of the specified shape.
C11_DefaultAndDiagnostic ==
  helper.pc = "returned" =>
    LET a == helper.formatArg
        out == helper.out
        t == IF a.defined THEN Trimmed(Inner(a)) ELSE <<>>
    IN /\ t = <<>> => out.result = DecimalDefault /\ ~out.warned
       /\ (t # <<>> /\ ClearlyUnrecognized(t)) =>
            out.result = DecimalDefault /\ out.warned
       /\ out.warned =>
            /\ out.result = DecimalDefault
            /\ out.text = t
            /\ t # <<>>
            /\ ~StrictShape(t)

\* parseFormat has returned from the unrecognized argument "[ x\t]": the
\* default, and a diagnostic that names "x".
C11_Witness ==
  /\ helper.pc = "returned"
  /\ helper.formatArg = Captured(<<"[", " ", "x", "\t", "]">>)
  /\ helper.out.warned
  /\ helper.out.text = <<"x">>
  /\ helper.out.result = DecimalDefault

\* --------------------------------------------------------------------- C12
\* A call of parseFormat has returned for a text that is not empty once
\* trimmed.
ParsedNonEmpty ==
  /\ helper.pc = "returned" /\ helper.fn = "parseFormat"
  /\ helper.formatArg.defined
  /\ Trimmed(Inner(helper.formatArg)) # <<>>

\* The call recognized the text if, and only if, it agrees with shape.
RecognizedIff(shape) ==
  /\ ~helper.out.warned <=> shape
  /\ ~shape => helper.out.result = DecimalDefault

\* C12 as stated: a non-empty trimmed text is recognized if and only if it is
\* an optional "(", one alphabet character and an optional single "." or ")";
\* every other text yields the decimal default.
C12_Original_StrictShape ==
  ParsedNonEmpty => RecognizedIff(StrictShape(Trimmed(Inner(helper.formatArg))))

Spaces(n) == [k \in 1..n |-> " "]

\* The shape with spaces between its parts and a ")" behind the punctuation.
SpacedShape(t) ==
  \E p \in {<<>>, <<"(">>}, c \in Alphabets,
     q \in {<<>>, <<".">>, <<")">>, <<".", ")">>, <<")", ")">>},
     m \in 0..Len(t), n \in 0..Len(t) :
    t = p \o Spaces(m) \o <<c>> \o Spaces(n) \o q

\* C12 (amended): a non-empty trimmed text is recognized if and only if it is
\* an optional "(", any number of spaces, one alphabet character, any number
\* of spaces and an optional closing punctuation that is ".", ")", ".)" or
\* "))"; every other text yields the decimal default.
C12_SpacedShape ==
  ParsedNonEmpty => RecognizedIff(SpacedShape(Trimmed(Inner(helper.formatArg))))

\* parseFormat has returned from "[a.)]", which it recognized with the two
\* punctuation characters as suffix.
C12_Witness ==
  /\ helper.pc = "returned"
  /\ helper.formatArg = Captured(<<"[", "a", ".", ")", "]">>)
  /\ ~helper.out.warned
  /\ helper.out.result = [type |-> "a", decoratorStart |-> <<>>,
                          decoratorEnd |-> <<".", ")">>]

\* --------------------------------------------------------------------- C13
\* The closing punctuation written at the end of text t: what follows its
\* last character other than "." and ")".
TrailingPunctuation(t) ==
  LET S == {k \in 1..Len(t) : t[k] \notin {".", ")"}}
  IN IF S = {} THEN t
     ELSE SubSeq(t, (CHOOSE x \in S : \A y \in S : y <= x) + 1, Len(t))

\* The format a recognized text t stands for: the alphabet of its alphabet
\* character, the prefix "(" if it begins with one, and as suffix its
\* trailing punctuation or, without one, "." for decimal and "" otherwise.
WrittenFormat(t) ==
  LET c == t[CHOOSE k \in 1..Len(t) : t[k] \in Alphabets]
      q == TrailingPunctuation(t)
  IN [type |-> c,
      decoratorStart |-> IF t[1] = "(" THEN <<"(">> ELSE <<>>,
      decoratorEnd |-> IF q # <<>> THEN q
                       ELSE IF c = "1" THEN <<".">> ELSE <<>>]

\* C13: for every recognized bracket argument parseFormat returns the
\* alphabet of its alphabet character, the prefix "(" exactly when a leading
\* "(" was written, and the written trailing punctuation as suffix or, when
\* none was written, "." for decimal and "" for the other alphabets: a bare
\* letter gives empty prefix and suffix, "1" the suffix ".", "[a)]" gives
\* {lowerLatin, "", ")"} and "[(I)]" gives {upperRoman, "(", ")"}.
C13_RecognizedFormat ==
  (ParsedNonEmpty /\ ~helper.out.warned) =>
    LET t == Trimmed(Inner(helper.formatArg))
        result == helper.out.result
    IN /\ result = WrittenFormat(t)
       /\ \A c \in Alphabets :
            t = <<c>> =>
              result = [type |-> c, decoratorStart |-> <<>>,
                        decoratorEnd |-> IF c = "1" THEN <<".">> ELSE <<>>]
       /\ t = <<"a", ")">> =>
            result = [type |-> "a", decoratorStart |-> <<>>,
                      decoratorEnd |-> <<")">>]
       /\ t = <<"(", "I", ")">> =>
            result = [type |-> "I", decoratorStart |-> <<"(">>,
                      decoratorEnd |-> <<")">>]

\* parseFormat has returned from "[(I)]": upper Roman between parentheses.
C13_Witness ==
  /\ helper.pc = "returned"
  /\ helper.formatArg = Captured(<<"[", "(", "I", ")", "]">>)
  /\ helper.out = [result |-> [type |-> "I", decoratorStart |-> <<"(">>,
                               decoratorEnd |-> <<")">>],
                   warned |-> FALSE, text |-> <<>>]

\* --------------------------------------------------------------------- C14
\* A call of generateIdentifier has returned for a format of one of types.
Generated(types) ==
  /\ helper.pc = "returned" /\ helper.fn = "generateIdentifier"
  /\ helper.format.type \in types

\* The label without the prefix and the suffix of the format.
ValueOf(out, format) ==
  SubSeq(out, Len(format.decoratorStart) + 1, Len(out) - Len(format.decoratorEnd))

Wrapped(out, format) ==
  /\ Len(out) >= Len(format.decoratorStart) + Len(format.decoratorEnd)
  /\ out = format.decoratorStart \o ValueOf(out, format) \o format.decoratorEnd

AToZ == <<"a", "b", "c", "d", "e", "f", "g", "h", "i", "j", "k", "l", "m",
          "n", "o", "p", "q", "r", "s", "t", "u", "v", "w", "x", "y", "z">>
CapitalAToZ ==
  <<"A", "B", "C", "D", "E", "F", "G", "H", "I", "J", "K", "L", "M",
    "N", "O", "P", "Q", "R", "S", "T", "U", "V", "W", "X", "Y", "Z">>

\* Place of letter c in alphabet (1..26), 0 when it is not in it.
LetterDigit(c, alphabet) ==
  IF \E d \in 1..26 : alphabet[d] = c
  THEN CHOOSE d \in 1..26 : alphabet[d] = c ELSE 0

\* The number a bijective base-26 numeral over alphabet stands for.
RECURSIVE BijectiveValue(_, _)
BijectiveValue(w, alphabet) ==
  IF w = <<>> THEN 0
  ELSE 26 * BijectiveValue(SubSeq(w, 1, Len(w) - 1), alphabet)
       + LetterDigit(w[Len(w)], alphabet)

IsNumeral(w, alphabet) ==
  /\ w # <<>>
  /\ \A k \in 1..Len(w) : LetterDigit(w[k], alphabet) # 0

\* u comes before v in length-then-lexicographic order.
ShortLexLess(u, v) ==
  \/ Len(u) < Len(v)
  \/ /\ Len(u) = Len(v)
     /\ \E k \in 1..Len(u) :
          /\ SubSeq(u, 1, k - 1) = SubSeq(v, 1, k - 1)
          /\ LetterDigit(u[k], AToZ) < LetterDigit(v[k], AToZ)

\* C14: for every counter >= 1 the lower-Latin value is the bijective
\* base-26 numeral of the counter over a-z (1 gives "a", 26 "z", 27 "aa",
\* 28 "ab"): it is not empty, it stands for the counter and for no other, it
\* comes after the value of the counter before in length-then-lexicographic
\* order, and the upper-Latin value is its uppercase; the label is the value
\* between prefix and suffix.
C14_BijectiveBase26 ==
  (Generated({"a", "A"}) /\ helper.counter >= 1) =>
    LET counter == helper.counter
        value == ValueOf(helper.out, helper.format)
        alphabet == IF helper.format.type = "a" THEN AToZ ELSE CapitalAToZ
        lower == [k \in 1..Len(value) |-> AToZ[LetterDigit(value[k], alphabet)]]
    IN /\ Wrapped(helper.out, helper.format)
       /\ IsNumeral(value, alphabet)
       /\ BijectiveValue(value, alphabet) = counter
       /\ lower = numberToLetter(counter)
       /\ counter >= 2 => ShortLexLess(numberToLetter(counter - 1), lower)
       /\ counter = 1 => lower = <<"a">>
       /\ counter = 26 => lower = <<"z">>
       /\ counter = 27 => lower = <<"a", "a">>
       /\ counter = 28 => lower = <<"a", "b">>

\* The generator has returned "AB)" for counter 28 in the format of "[A)]".
C14_Witness ==
  /\ Generated({"A"})
  /\ helper.counter = 28
  /\ helper.out = <<"A", "B", ")">>

\* --------------------------------------------------------------------- C15
\* The standard Roman numerals of the digits 0..9 at the places of the
\* units, the tens, the hundreds and the thousands.
RomanUnits ==
  << <<>>, <<"i">>, <<"i", "i">>, <<"i", "i", "i">>, <<"i", "v">>, <<"v">>,
     <<"v", "i">>, <<"v", "i", "i">>, <<"v", "i", "i", "i">>, <<"i", "x">> >>
RomanTens ==
  << <<>>, <<"x">>, <<"x", "x">>, <<"x", "x", "x">>, <<"x", "l">>, <<"l">>,
     <<"l", "x">>, <<"l", "x", "x">>, <<"l", "x", "x", "x">>, <<"x", "c">> >>
RomanHundreds ==
  << <<>>, <<"c">>, <<"c", "c">>, <<"c", "c", "c">>, <<"c", "d">>, <<"d">>,
     <<"d", "c">>, <<"d", "c", "c">>, <<"d", "c", "c", "c">>, <<"c", "m">> >>
RomanThousands == << <<>>, <<"m">>, <<"m", "m">>, <<"m", "m", "m">> >>

StandardRoman(n) ==
  RomanThousands[(n \div 1000) + 1] \o RomanHundreds[((n \div 100) % 10) + 1]
    \o RomanTens[((n \div 10) % 10) + 1] \o RomanUnits[(n % 10) + 1]

\* The value of a Roman letter, lower or upper case.
RomanLetterValue(c) ==
  CASE c \in {"i", "I"} -> 1 [] c \in {"v", "V"} -> 5 [] c \in {"x", "X"} -> 10
    [] c \in {"l", "L"} -> 50 [] c \in {"c", "C"} -> 100
    [] c \in {"d", "D"} -> 500 [] c \in {"m", "M"} -> 1000 [] OTHER -> 0

\* The sum of the symbols of a Roman numeral: a letter before a larger one
\* forms a subtractive symbol with it.
RECURSIVE RomanSum(_)
RomanSum(w) ==
  IF w = <<>> THEN 0
  ELSE IF Len(w) >= 2 /\ RomanLetterValue(w[1]) < RomanLetterValue(w[2])
  THEN RomanLetterValue(w[2]) - RomanLetterValue(w[1]) + RomanSum(SubSeq(w, 3, Len(w)))
  ELSE RomanLetterValue(w[1]) + RomanSum(Tail(w))

\* w in capital letters, for the letters of Roman numerals.
Capitals(w) ==
  [k \in 1..Len(w) |->
     CASE w[k] = "i" -> "I" [] w[k] = "v" -> "V" [] w[k] = "x" -> "X"
       [] w[k] = "l" -> "L" [] w[k] = "c" -> "C" [] w[k] = "d" -> "D"
       [] w[k] = "m" -> "M" [] OTHER -> w[k]]

\* C15: for every counter in 1..3999 the lower-Roman value is the standard
\* subtractive Roman numeral of the counter: the values of its symbols sum to
\* the counter (4 gives "iv", 9 "ix", 1994 "mcmxciv"); the upper-Roman value
\* is its uppercase; the label is the value between prefix and suffix.
C15_StandardRoman ==
  (Generated({"i", "I"}) /\ helper.counter \in 1..3999) =>
    LET counter == helper.counter
        value == ValueOf(helper.out, helper.format)
        standard == IF helper.format.type = "i" THEN StandardRoman(counter)
                    ELSE Capitals(StandardRoman(counter))
    IN /\ Wrapped(helper.out, helper.format)
       /\ value = standard
       /\ RomanSum(value) = counter
       /\ (helper.format.type = "i" /\ counter = 4) => value = <<"i", "v">>
       /\ (helper.format.type = "i" /\ counter = 9) => value = <<"i", "x">>
       /\ (helper.format.type = "i" /\ counter = 1994) =>
            value = <<"m", "c", "m", "x", "c", "i", "v">>

\* The generator has returned "(mcmxciv)" for counter 1994 in the format of
\* "[(i)]".
C15_Witness ==
  /\ Generated({"i"})
  /\ helper.counter = 1994
  /\ helper.out = <<"(", "m", "c", "m", "x", "c", "i", "v", ")">>

\* --------------------------------------------------------------------- C16
Digits == <<"0", "1", "2", "3", "4", "5", "6", "7", "8", "9">>

\* The number a text of decimal digits stands for, -1 when it is none.
RECURSIVE DecimalValue(_)
DecimalValue(w) ==
  IF w = <<>> THEN 0
  ELSE IF \E d \in 1..10 : Digits[d] = w[Len(w)]
  THEN 10 * DecimalValue(SubSeq(w, 1, Len(w) - 1))
       + (CHOOSE d \in 1..10 : Digits[d] = w[Len(w)]) - 1
  ELSE 0 - 1

\* w is the decimal text of n: digits without leading zero that stand for
\* n, behind a minus sign when n is negative.
IsDecimalText(w, n) ==
  LET digits == IF n < 0 THEN Tail(w) ELSE w
  IN /\ w # <<>> /\ digits # <<>>
     /\ n < 0 => w[1] = "-"
     /\ \A k \in 1..Len(digits) : \E d \in 1..10 : Digits[d] = digits[k]
     /\ Len(digits) > 1 => digits[1] # "0"
     /\ DecimalValue(digits) = (IF n < 0 THEN 0 - n ELSE n)

\* C16: for a Roman alphabet, lower or upper, and a counter <= 0 or >= 4000
\* the generator returns, and the value is the decimal text of the counter
\* (0 gives "0", 4000 gives "4000") between prefix and suffix.
C16_OutOfRangeDecimal ==
  (Generated({"i", "I"}) /\ (helper.counter <= 0 \/ helper.counter >= 4000)) =>
    LET value == ValueOf(helper.out, helper.format)
    IN /\ Wrapped(helper.out, helper.format)
       /\ IsDecimalText(value, helper.counter)
       /\ helper.counter = 0 => value = <<"0">>
       /\ helper.counter = 4000 => value = <<"4", "0", "0", "0">>

\* The generator has returned "4000." for counter 4000 in the format of
\* "[I.]".
C16_Witness ==
  /\ Generated({"I"})
  /\ helper.counter = 4000
  /\ helper.out = <<"4", "0", "0", "0", ".">>

\* --------------------------------------------------------------------- C17
\* The item lexemes of the content of match m, from the left.
RECURSIVE ItemsFrom(_, _, _)
ItemsFrom(text, q, end) ==
  IF q >= end THEN <<>>
  ELSE (IF text[q] = Item THEN <<q>> ELSE <<>>) \o ItemsFrom(text, q + 1, end)

\* C17: for every ordered-list block the scanner emits exactly one start
\* range over the begin literal and the bracket argument, if there is one,
\* that carries the bracket text as written, brackets included (or nothing);
\* then one item range of the item literal's length for each item literal of
\* the content span, from the left; then one end range over the end literal.
\* No item range lies outside the content span of a block, the plugin holds
\* no other range, and a block without items has its start and end ranges
\* only.
C17_EnumerateRanges ==
  LET p == enumeratePlugin
  IN /\ ~p.crashed
     /\ (p.blocks = <<>>) = (p.decorations = <<>>)
     /\ p.blocks # <<>> => p.blocks[1].at = 1
     /\ \A n \in 1..Len(p.blocks) :
          LET m == p.blocks[n].match
              s0 == StartOffset(Text, m)
              c0 == ContentStart(Text, m)
              c1 == ContentEnd(Text, m)
              e1 == EndOffset(Text, m)
              arg == WrittenFormatArg(Text, m)
              items == ItemsFrom(Text, m.lex.content, m.lex.end)
              rs == RangesOf(p, n)
          IN /\ Slice(Text, s0, c0) = <<BeginE>> \o arg.s
             /\ arg.defined => arg.s[1] = "[" /\ arg.s[Len(arg.s)] = "]"
             /\ Slice(Text, c1, e1) = <<EndE>>
             /\ Len(rs) = Len(items) + 2
             /\ rs[1] = Range(s0, c0, "ReplaceStart", arg)
             /\ rs[Len(rs)] = Range(c1, e1, "ReplaceEnd", Undefined)
             /\ \A k \in 1..Len(items) :
                  /\ rs[k + 1].kind = "ReplaceItem"
                  /\ rs[k + 1].from = Off(Text, items[k])
                  /\ rs[k + 1].to = rs[k + 1].from + Len(Item)
                  /\ c0 <= rs[k + 1].from /\ rs[k + 1].to <= c1
             /\ Len(items) = 0 => Len(rs) = 2

\* An ordered list with a bracket argument and two items followed by an
\* ordered list without items, scanned: four ranges and two ranges.
C17_Witness ==
  /\ Len(enumeratePlugin.blocks) = 2
  /\ enumeratePlugin.blocks[1].o.formatArg.defined
  /\ enumeratePlugin.blocks[1].items = 2
  /\ enumeratePlugin.blocks[2].items = 0
  /\ Len(enumeratePlugin.decorations) = 6

\* --------------------------------------------------------------------- C18
\* The scanner call of SpecSteps is at one of pcs.
ScanAt(pcs) == Len(calls) = 1 /\ calls[1].s.pc \in pcs

\* The cursor of the block pattern of the grammar that is scanned.
BlockCursor ==
  IF calls[1].grammar = "questionenv" THEN blockRegex ELSE enumerateBlockRegex

\* A step of a match loop that found a match moves the cursor of its pattern
\* forward.
MatchAdvances ==
  ScanAt({"loop", "items"}) =>
    /\ calls[1].s.pc = "loop" =>
         (Len(calls'[1].s.blocks) > Len(calls[1].s.blocks)
            => BlockCursor' > BlockCursor)
    /\ calls[1].s.pc = "items" =>
         (calls'[1].s.itemCounter > calls[1].s.itemCounter
            => itemRegex' > itemRegex)

\* What the loop of a generator function still has to do: n for
\* numberToLetter; for numberToRoman num and the keys not yet left behind.
Variant(h) ==
  IF h.fn = "numberToLetter" THEN h.s.n
  ELSE h.s.num + (Len(romanKeys) + 1 - h.s.k)

\* An iteration of a generator loop decreases its variant, which stays >= 0.
VariantDecreases ==
  (helper.pc = "loop" /\ helper'.pc = "loop") =>
    /\ Variant(helper') < Variant(helper)
    /\ Variant(helper') >= 0

\* A match loop has made no more iterations than the text it scans has
\* characters, and its cursor is inside the text.
IterationsBounded ==
  ScanAt({"loop", "items", "return", "threw"}) =>
    LET c == calls[1]
    IN /\ Len(c.s.blocks) <= StrLen(c.text)
       /\ BlockCursor <= StrLen(c.text)
       /\ c.grammar = "enumerate" =>
            /\ itemRegex <= StrLen(c.text)
            /\ \A n \in 1..Len(c.s.blocks) :
                 c.s.blocks[n].items <= StrLen(c.s.blocks[n].match.g2.s)

\* C18: every scan terminates: each block match and each item match moves
\* the cursor of its pattern forward, no match loop makes more iterations
\* than its text has characters, and a scanner that is called returns; each
\* iteration of the Latin and Roman generator loops decreases a variant that
\* stays >= 0, and a generator function that is called returns.
C18_ScansTerminate ==
  /\ [][MatchAdvances /\ VariantDecreases]_vars
  /\ []IterationsBounded
  /\ ScanAt({"idle"}) ~> ScanAt({"return"})
  /\ (helper.pc = "called") ~> (helper.pc = "returned")

\* The ordered-list scanner has returned from a text of two blocks with
\* items: five iterations of the item loop and three of the block loop.
C18_Witness ==
  /\ ScanAt({"return"})
  /\ calls[1].grammar = "enumerate"
  /\ Len(calls[1].s.blocks) = 2
  /\ calls[1].s.blocks[1].items = 3
  /\ calls[1].s.blocks[2].items = 2
  /\ enumerateBlockRegex = 0 /\ itemRegex = 0

\* --------------------------------------------------------------------- C19
\* C19 as stated: after any sequence of view updates, what each of the three
\* view plugins holds is the ranges of a scan of the current full document
\* text.
C19_Original_FullScanAfterUpdates ==
  /\ questionEnvPlugin.decorations =
       findAndDecorateQuestionEnvBlocks(0, Text).builder.ranges
  /\ enumeratePlugin.decorations =
       findAndDecorateEnumerateBlocks(0, 0, Text).builder.ranges
  /\ bulldozerPlugin.decorations =
       findAndDecorateBulldozerBlocks(0, Text, Whole(doc)).builder.ranges

\* --------------------------------------------------------------------- C20
\* The states a call of a scanner goes through from s: s after the entry,
\* then one state per evaluation of a loop condition.
RECURSIVE QTrace(_)
QTrace(s) == IF s.pc = "loop" THEN <<s>> \o QTrace(QIterate(s)) ELSE <<s>>

RECURSIVE ETrace(_)
ETrace(s) ==
  IF s.pc \in {"loop", "items"} THEN <<s>> \o ETrace(EStep(s)) ELSE <<s>>

RECURSIVE BTrace(_)
BTrace(s) ==
  IF s.pc \in {"for", "loop"} THEN <<s>> \o BTrace(BStep(s)) ELSE <<s>>

\* Values a module-level cursor may hold when a scanner is called.
EntryCursors == {0, 1, StrLen(Text)}

\* In trace t of findAndDecorateQuestionEnvBlocks every match attempt starts
\* at 0 (the first) or where the match before it in this call ended.
QAttemptsFromOwnCursor(t) ==
  /\ t[1].pc = "loop" /\ t[1].lastIndex = 0
  /\ \A k \in 1..Len(t) :
       t[k].pc = "loop" =>
         t[k].lastIndex =
           IF t[k].blocks = <<>> THEN 0
           ELSE t[k].blocks[Len(t[k].blocks)].o.blockEndIndex

\* In trace t of findAndDecorateEnumerateBlocks every attempt of the block
\* pattern starts at 0 or where the block before it ended; the item cursor
\* is 0 when the item loop of a block begins, and every attempt of the item
\* pattern starts at 0 or where the item before it in this block ended.
EAttemptsFromOwnCursor(t) ==
  /\ t[1].pc = "loop" /\ t[1].lastIndex = 0
  /\ \A k \in 1..Len(t) :
       /\ t[k].pc = "loop" =>
            t[k].lastIndex =
              IF t[k].blocks = <<>> THEN 0
              ELSE t[k].blocks[Len(t[k].blocks)].o.blockEndIndex
       /\ (k > 1 /\ t[k - 1].pc = "loop" /\ t[k].pc = "items") =>
            t[k].itemLastIndex = 0 /\ t[k].itemCounter = 0
       /\ t[k].pc = "items" =>
            t[k].itemLastIndex =
              IF t[k].itemCounter = 0 THEN 0
              ELSE t[k].builder.ranges[Len(t[k].builder.ranges)].to
                     - t[k].o.contentStartIndex

\* In trace t of findAndDecorateBulldozerBlocks the cursor is 0 when the
\* loop of a visible range begins, and every match attempt starts at 0 or
\* where the match before it in this range ended.
BAttemptsFromOwnCursor(t) ==
  \A k \in 2..Len(t) :
    /\ (t[k - 1].pc = "for" /\ t[k].pc = "loop") => t[k].lastIndex = 0
    /\ (t[k - 1].pc = "loop" /\ t[k].pc = "loop") =>
         t[k].lastIndex =
           t[k].blocks[Len(t[k].blocks)].o.blockEndIndex - t[k].from

\* C20: every scan sets the cursor of the block pattern to 0 before its
\* first match attempt (the scanner of main.ts: before the first attempt in
\* each visible range) and the cursor of the item pattern to 0 before the
\* item loop of each block, whatever values the cursors held when it was
\* called; every match attempt starts from 0 or from the end of the match
\* before it in the same loop; and after every scan of a view update all
\* module-level cursors are 0.
C20_CursorsReset ==
  /\ blockRegex = 0 /\ enumerateBlockRegex = 0 /\ itemRegex = 0
  /\ bulldozerBlockRegex = 0
  /\ \A lastIndex \in EntryCursors :
       /\ QAttemptsFromOwnCursor(QTrace(QEnter(lastIndex, Text)))
       /\ BAttemptsFromOwnCursor(BTrace(BEnter(lastIndex, Text, visibleRanges)))
       /\ \A itemLastIndex \in EntryCursors :
            EAttemptsFromOwnCursor(ETrace(EEnter(lastIndex, itemLastIndex, Text)))

\* A document with a named block and an ordered list with an item, each
\* scanned in several match attempts, and the cursors at 0 afterwards.
C20_Witness ==
  /\ Len(questionEnvPlugin.blocks) >= 1
  /\ Len(bulldozerPlugin.blocks) >= 1
  /\ Len(enumeratePlugin.blocks) >= 1
  /\ enumeratePlugin.blocks[1].items >= 1
  /\ enumeratePlugin.blocks[1].match.index > 0
  /\ blockRegex = 0 /\ enumerateBlockRegex = 0 /\ itemRegex = 0
  /\ bulldozerBlockRegex = 0

\* --------------------------------------------------------------------- C21
\* The span of the bracket argument of a scanned ordered list: empty, right
\* behind the begin literal, when the block has none.
ArgSpan(block) ==
  [from |-> block.o.blockStartIndex + Len("\\begin{enumerate}"),
   to |-> block.o.startMarkerEndIndex]

\* A format was submitted for a clicked start marker and the change was
\* dispatched.
FormatDispatched ==
  modal.pc = "dispatched" /\ modal.kind = "EnumerateFormatModal"

\* C21 as stated: the change dispatched for a submitted format replaces
\* exactly the span of the bracket argument of the clicked block (an
\* insertion right behind the begin literal when there is none) by the new
\* bracket argument, nothing when the submission is empty, and every other
\* character of the document is as before: for every bracket argument.
C21_Original_ReplacesBracketArgument ==
  FormatDispatched =>
    /\ modal.change.from = ArgSpan(modal.clicked).from
    /\ modal.change.to = ArgSpan(modal.clicked).to
    /\ modal.change.insert =
         IF Trimmed(modal.raw) = <<>> THEN <<>>
         ELSE <<"[">> \o Trimmed(modal.raw) \o <<"]">>
    /\ Text = Slice(modal.before, 0, ArgSpan(modal.clicked).from)
                \o modal.change.insert
                \o Slice(modal.before, ArgSpan(modal.clicked).to,
                         StrLen(modal.before))

\* --------------------------------------------------------------------- C22
\* InputModal was submitted for a clicked start marker.
TitleSubmitted ==
  modal.pc \in {"dispatched", "unchanged"} /\ modal.kind = "InputModal"

\* The submitted title after trimming, a single space when nothing is left.
SubmittedTitle ==
  IF Trimmed(modal.raw) = <<>> THEN <<" ">> ELSE Trimmed(modal.raw)

\* The rescan of the edited document has found a named block at offset
\* start that carries name.
Renamed(start, name) ==
  \E n \in 1..Len(questionEnvPlugin.blocks) :
    /\ questionEnvPlugin.blocks[n].o.blockStartIndex = start
    /\ questionEnvPlugin.blocks[n].o.name = name
    /\ questionEnvPlugin.decorations[questionEnvPlugin.blocks[n].at].data.s = name

\* C22 as stated: after a title is submitted for a clicked start marker, the
\* rescan of the edited document finds a named block at the same start
\* offset whose name is the submitted title after trimming (a single space
\* for an empty submission), for every title; a submission equal to the
\* original name dispatches no change.
C22_Original_RenamedToSubmittedTitle ==
  TitleSubmitted =>
    IF SubmittedTitle = modal.originalName
    THEN modal.pc = "unchanged" /\ Text = modal.before
    ELSE /\ modal.pc = "dispatched"
         /\ Renamed(modal.clicked.o.blockStartIndex, SubmittedTitle)

====
